---- MODULE Spec2Model ----
(***************************************************************************)
(* Model of the standalone Codex proxy server (src/unnamed/part_000):      *)
(* credential lifecycle (bootstrap / refresh / single-flight handle) and   *)
(* the HTTP dispatch in front of it.                                       *)
(*                                                                         *)
(* Execution model: Node's event loop.  An action that needs mq = << >> is *)
(* one I/O callback (a macrotask) together with the synchronous code that  *)
(* runs up to the next real suspension; the promise reactions it schedules *)
(* are queued in mq and drained (RefreshThenCatch, RefreshFinally,         *)
(* WaiterResumes) before the next I/O callback can run.                    *)
(***************************************************************************)
EXTENDS Integers, Sequences, FiniteSets, TLC

\* ------------------------------------------------------------------ bounds
NReq == 2                \* number of HTTP requests in a behaviour
MaxTicks == 1            \* how many times the clock advances
MaxPathLen == 5          \* longest path fed to normalizePath on its own
MaxSkew == 12            \* width of the window of expiry times around the buffer
MaxModelParts == 2       \* a model name is made of at most this many fragments
MaxItems == 2            \* longest input array a caller sends
MaxEvents == 3           \* longest event stream the upstream answers with

\* --------------------------------------------------------------- constants
bufferMs == 60000        \* hasValidAccess: const bufferMs = 60_000
ExcerptChars == 8000     \* responseBody.slice(0, 8000)
TickMs == bufferMs       \* clock granularity of the model
LifetimeMs == 2 * bufferMs   \* lifetime of a token granted by the token endpoint

Boot == 0                \* the startServer() task
Reqs == 1..NReq
Procs == {Boot} \cup Reqs

\* ----------------------------------------------------------------- strings
\* A string is a sequence of one-character strings.
StartsWith(s, p) == Len(s) >= Len(p) /\ SubSeq(s, 1, Len(p)) = p
Slice(s, n) == SubSeq(s, n + 1, Len(s))

PathV1Slash == <<"/", "v", "1", "/">>
PathV1 == <<"/", "v", "1">>
PathRoot == <<"/">>
PathHealth == <<"/", "h", "e", "a", "l", "t", "h">>
PathResponses == <<"/", "r", "e", "s", "p", "o", "n", "s", "e", "s">>
PathOther == <<"/", "o", "t", "h", "e", "r">>

\* normalizePath(pathname) with slice(4): drops the slash after the prefix
normalizePathSlice4(pathname) ==
    IF ~StartsWith(pathname, PathRoot) THEN PathRoot \o pathname
    ELSE IF StartsWith(pathname, PathV1Slash) THEN Slice(pathname, 4)
    ELSE IF pathname = PathV1 THEN PathRoot
    ELSE pathname

normalizePath(pathname) ==
    IF ~StartsWith(pathname, PathRoot) THEN PathRoot \o pathname
    ELSE IF StartsWith(pathname, PathV1Slash) THEN Slice(pathname, 3)
    ELSE IF pathname = PathV1 THEN PathRoot
    ELSE pathname

\* ------------------------------------------------------------- credentials
\* StoredCredentials; tok identifies the access/refresh pair, tok = 0 is null.
NoCreds == [tok |-> 0, expires |-> 0]
\* a credential file that exists but does not parse
CorruptFile == [tok |-> -1, expires |-> 0]

\* hasValidAccess with >= in place of >
hasValidAccessGe(c, t) ==
    IF c = NoCreds THEN FALSE ELSE c.expires >= t + bufferMs

\* hasValidAccess(creds), t is the value of Date.now()
hasValidAccess(c, t) ==
    IF c = NoCreds THEN FALSE ELSE c.expires > t + bufferMs

\* loadStoredCredentials(): null when the file is missing or unparsable
loadStoredCredentials(file) ==
    IF file.tok <= 0 THEN NoCreds ELSE file


\* ------------------------------------------------------------------- state
VARIABLES
    now,             \* Date.now()
    creds,           \* authState.credentials
    refreshPromise,  \* authState.refreshPromise: 0 is null, h > 0 the h-th promise
    disk,            \* contents of TOKEN_FILE
    pc,              \* where each task is suspended
    req,             \* the request each handler serves: method, path, raw body
    resp,            \* what has been written to each ServerResponse
    cached,          \* bootstrapCredentials' local `cached`, per task
    mq,              \* the microtask queue (promise reactions not yet run)
    waiters,         \* handlers suspended in `await authState.refreshPromise`, in order
    efCall,          \* the refreshCredentials() call behind refreshPromise, while outstanding
    nextTok,         \* next token the token endpoint / login hands out
    nHandles,        \* number of refresh promises created so far
    joined,          \* history: the promise each handler awaited (0: none)
    issued,          \* history: refresh network calls each task has issued
    logins,          \* history: interactive logins each task has started
    obs,             \* history: how ensureFreshCredentials ended for each handler
    upstream,        \* history: upstream POSTs each handler has issued
    outcome,         \* history: how each refresh promise's token exchange ended
    io,              \* history: reads and writes of TOKEN_FILE
    pathIn, pathOut, \* normalizePath applied on its own
    vCreds, vNow, vOut,  \* hasValidAccess applied on its own
    mModel, mConfig, mOut,   \* normalizeModel and getReasoningConfig applied on their own
    hVer,            \* one request seen on its own: which handleResponsesEndpoint serves it
    hEnv,            \* the environment options and ProxyContext the handler reads
    hpc,             \* where that handler stands
    parsedBody,      \* parsedBody as JSON.parse returned it
    clientStreamRequested,   \* the caller's stream preference as the handler holds it
    sentBody,        \* the body of the upstream POST
    posts,           \* history: upstream POSTs issued for that request
    upstreamResponse,    \* what fetch() resolved with
    responseForClient,   \* the response the handler is about to forward
    logged,          \* history: the entries given to logProxyError
    logFile,         \* the records in the file at LOG_PATH
    reply,           \* what has been written to the caller
    traces,          \* history: per request handled, the cache key it came with, its
                     \* traceId and the cache key of the body sent upstream
    toolsIn, toolsOut    \* normalizeToolNames applied on its own

authVars == <<creds, refreshPromise, disk>>
histVars == <<joined, issued, logins, obs, upstream, outcome, io>>
pathVars == <<pathIn, pathOut>>
validVars == <<vCreds, vNow, vOut>>
modelVars == <<mModel, mConfig, mOut>>
handlerVars == <<hVer, hEnv, hpc, parsedBody, clientStreamRequested, sentBody, posts,
                 upstreamResponse, responseForClient, logged, logFile, reply>>
sideVars == <<traces, toolsIn, toolsOut>>
pureVars == <<pathIn, pathOut, vCreds, vNow, vOut, modelVars, handlerVars, sideVars>>
vars == <<now, creds, refreshPromise, disk, pc, req, resp, cached, mq, waiters,
          efCall, nextTok, nHandles, joined, issued, logins, obs, upstream,
          outcome, io, pathIn, pathOut, vCreds, vNow, vOut, modelVars, handlerVars,
          sideVars>>

\* ---------------------------------------------------------------- requests
Methods == {"GET", "POST"}
PathResponsesX == PathResponses \o <<"x">>
ReqPaths == { PathHealth, PathV1 \o PathHealth, PathV1 \o PathResponses,
              PathResponsesX, PathOther, PathV1 }

\* raw request bodies: "", "{", "null", "{}"
BodyEmpty == << >>
BodyBrace == <<"{">>
BodyNull == <<"n", "u", "l", "l">>
BodyObject == <<"{", "}">>
Bodies == {BodyEmpty, BodyBrace, BodyNull, BodyObject}
NotRead == <<"?">>

\* Request 1 is an arbitrary request (any method, path and body below, any answer
\* of the upstream) arriving at any time; the other requests are the client's
\* well-formed calls, which the upstream answers with 200.
MethodsOf(r) == IF r = 1 THEN Methods ELSE {"POST"}
PathsOf(r) == IF r = 1 THEN ReqPaths ELSE {PathV1 \o PathResponses}
BodiesOf(r) == IF r = 1 THEN Bodies ELSE {BodyObject}
UpstreamResults == {200, 500, 0}     \* 0: fetch() rejects
UpstreamOf(r) == IF r = 1 THEN UpstreamResults ELSE {200}

\* JSON.parse on the bodies above: "throws", or the kind of value parsed
jsonParse(raw) ==
    IF raw = BodyObject THEN "object"
    ELSE IF raw = BodyNull THEN "null"
    ELSE "throws"

NoReq == [method |-> "", path |-> << >>, body |-> NotRead]
NoResp == [status |-> 0, key |-> "", msg |-> << >>]
\* sendJson(res, status, {key: msg})
sendJson(status, key, msg) == [status |-> status, key |-> key, msg |-> msg]
\* forwardResponse(upstream, res): the upstream status and body go out
forwardResponse(status) == [status |-> status, key |-> "upstream", msg |-> << >>]
\* sendJson(res, 500, { error: "Internal server error" })
InternalError == sendJson(500, "error", <<"Internal server error">>)
\* a catch that writes nothing
listenerCatchSilent(sent) == sent
\* the catch of the request listener (lines 380-387, 894-901), sent being what has
\* been written to the caller so far: 500 when the headers are not sent, else
\* res.end() adds nothing
listenerCatch(sent) == IF sent = NoResp THEN InternalError ELSE sent

NoCall == [h |-> 0, current |-> NoCreds]
NoObs == [ret |-> "none", creds |-> NoCreds]
NoOutcome == [st |-> "none", rec |-> NoCreds]
NoTask == [t |-> "", h |-> 0, ok |-> FALSE, rec |-> NoCreds, r |-> 0]

\* ------------------------------------------------------------- JSON values
\* A property that is absent reads as undefined.  Text is a sequence of
\* characters; the other scalars are written as JSON writes them.
Undefined == <<"undefined">>
\* a value that may be an array: kind is "undefined", "string" or "array"
JsonUndefined == [kind |-> "undefined", items |-> << >>]
JsonString == [kind |-> "string", items |-> << >>]
JsonArray(items) == [kind |-> "array", items |-> items]
isArray(v) == v.kind = "array"

\* String.prototype.includes
Includes(s, sub) ==
    \E i \in 0..(Len(s) - Len(sub)) : SubSeq(s, i + 1, i + Len(sub)) = sub

\* String.prototype.toLowerCase, on the letters that occur in model names
lowerOf(c) ==
    CASE c = "A" -> "a" [] c = "B" -> "b" [] c = "C" -> "c" [] c = "D" -> "d"
      [] c = "E" -> "e" [] c = "F" -> "f" [] c = "G" -> "g" [] c = "H" -> "h"
      [] c = "I" -> "i" [] c = "J" -> "j" [] c = "K" -> "k" [] c = "L" -> "l"
      [] c = "M" -> "m" [] c = "N" -> "n" [] c = "O" -> "o" [] c = "P" -> "p"
      [] c = "Q" -> "q" [] c = "R" -> "r" [] c = "S" -> "s" [] c = "T" -> "t"
      [] c = "U" -> "u" [] c = "V" -> "v" [] c = "W" -> "w" [] c = "X" -> "x"
      [] c = "Y" -> "y" [] c = "Z" -> "z"
      [] OTHER -> c
toLowerCase(s) == [i \in 1..Len(s) |-> lowerOf(s[i])]

\* ------------------------------------------------------------- model names
sGpt5 == <<"g", "p", "t", "-", "5">>
sGptSpace5 == <<"g", "p", "t", " ", "5">>
sGPTSpace5 == <<"G", "P", "T", " ", "5">>
sCodex == <<"c", "o", "d", "e", "x">>
sCODEX == <<"C", "O", "D", "E", "X">>
sCoDex == <<"C", "o", "d", "e", "x">>
sMini == <<"m", "i", "n", "i">>
sNano == <<"n", "a", "n", "o">>
sDash == <<"-">>
sO3 == <<"o", "3">>
ModelGpt5 == sGpt5
ModelGpt5Codex == sGpt5 \o sDash \o sCodex

\* the fragments model names are made of, and the names of up to n fragments
ModelParts == {sGpt5, sGPTSpace5, sCodex, sCODEX, sCoDex, sMini, sNano, sDash, sO3}
RECURSIVE ModelNamesOf(_)
ModelNamesOf(n) ==
    IF n = 0 THEN {<< >>}
    ELSE LET S == ModelNamesOf(n - 1) IN S \cup {a \o b : a \in S, b \in ModelParts}
ModelNames == ModelNamesOf(MaxModelParts) \cup {Undefined}

\* normalizeModel() comparing the name as written
normalizeModelCaseSensitive(model) ==
    IF model = Undefined \/ model = << >> THEN ModelGpt5
    ELSE IF Includes(model, sCodex) THEN ModelGpt5Codex
    ELSE IF Includes(model, sGpt5) \/ Includes(model, sGptSpace5) THEN ModelGpt5
    ELSE ModelGpt5

\* normalizeModel(model)
normalizeModel(model) ==
    IF model = Undefined \/ model = << >> THEN ModelGpt5
    ELSE IF Includes(toLowerCase(model), sCodex) THEN ModelGpt5Codex
    ELSE IF \/ Includes(toLowerCase(model), sGpt5)
            \/ Includes(toLowerCase(model), sGptSpace5) THEN ModelGpt5
    ELSE ModelGpt5

\* ConfigOptions; "" and Undefined stand for an option that is not set
NoOptions == [reasoningEffort |-> "", reasoningSummary |-> "", textVerbosity |-> "",
              include |-> JsonUndefined]
Efforts == {"minimal", "low", "medium", "high"}

\* getReasoningConfig(originalModel, userConfig)
getReasoningConfig(originalModel, userConfig) ==
    LET isLightweight == /\ originalModel # Undefined
                         /\ \/ Includes(originalModel, sNano)
                            \/ Includes(originalModel, sMini)
        isCodex == originalModel # Undefined /\ Includes(originalModel, sCodex)
        defaultEffort == IF isLightweight THEN "minimal" ELSE "medium"
        effort == IF userConfig.reasoningEffort # ""
                  THEN userConfig.reasoningEffort ELSE defaultEffort
    IN  [effort |-> IF isCodex /\ effort = "minimal" THEN "low" ELSE effort,
         summary |-> IF userConfig.reasoningSummary # ""
                     THEN userConfig.reasoningSummary ELSE "auto"]

NoModelOut == [model |-> << >>, reasoning |-> [effort |-> "", summary |-> ""]]

\* ------------------------------------------------------------ request body
\* InputItem.  id is "undefined" when the item has no id property, and "" when
\* it has one that is empty.
ItemUserWithId == [type |-> "message", role |-> "user", id |-> "msg_1",
                   content |-> "hello"]
ItemUserNoId == [type |-> "message", role |-> "user", id |-> "undefined",
                 content |-> "again"]
ItemReference == [type |-> "item_reference", role |-> "undefined", id |-> "rs_1",
                  content |-> "undefined"]
ItemCallEmptyId == [type |-> "function_call", role |-> "undefined", id |-> "",
                    content |-> "undefined"]
OpenCodePrompt == "You are a coding agent running in"
ItemOpenCodePrompt == [type |-> "message", role |-> "developer", id |-> "undefined",
                       content |-> OpenCodePrompt]
Items == {ItemUserWithId, ItemUserNoId, ItemReference, ItemCallEmptyId,
          ItemOpenCodePrompt}

\* the messages the proxy puts in front of the input
BridgeMessage == [type |-> "message", role |-> "developer", id |-> "undefined",
                  content |-> "CODEX_OPENCODE_BRIDGE"]
GuideMessage(messageText) == [type |-> "message", role |-> "developer",
                              id |-> "undefined", content |-> messageText]
EnvOverrideMessage == [type |-> "message", role |-> "developer", id |-> "undefined",
                       content |-> "[ENVIRONMENT OVERRIDE]"]

DefaultInclude == <<"reasoning.encrypted_content">>

\* texts: blank, a caller's instructions, the Codex instructions
sBlank == <<" ">>
sBrief == <<" ", "b", "r", "i", "e", "f">>
CodexInstructions == <<"C", "o", "d", "e", "x", ".">>

\* String.prototype.trim
RECURSIVE trimStart(_)
trimStart(s) == IF s # << >> /\ Head(s) = " " THEN trimStart(Tail(s)) ELSE s
RECURSIVE trimEnd(_)
trimEnd(s) ==
    IF s # << >> /\ s[Len(s)] = " " THEN trimEnd(SubSeq(s, 1, Len(s) - 1)) ELSE s
trim(s) == trimEnd(trimStart(s))

\* RequestBody, the properties the handlers and the transformer read or write
NoReasoning == [effort |-> "", summary |-> ""]
NoBody == [model |-> Undefined, store |-> "", stream |-> "", instructions |-> Undefined,
           input |-> JsonUndefined, include |-> JsonUndefined, tools |-> "",
           prompt_cache_key |-> "", reasoning |-> NoReasoning]

\* ------------------------------------------------------ request-transformer
\* UserConfig; context.userConfig of the proxy is { global: {}, models: {} }
EmptyUserConfig == [global |-> NoOptions, models |-> << >>]

\* getModelConfig(modelName, userConfig): model options override global ones
getModelConfig(modelName, userConfig) ==
    LET globalOptions == userConfig.global
        modelOptions == IF modelName \in DOMAIN userConfig.models
                        THEN userConfig.models[modelName] ELSE NoOptions
    IN  [reasoningEffort |-> IF modelOptions.reasoningEffort # ""
                             THEN modelOptions.reasoningEffort
                             ELSE globalOptions.reasoningEffort,
         reasoningSummary |-> IF modelOptions.reasoningSummary # ""
                              THEN modelOptions.reasoningSummary
                              ELSE globalOptions.reasoningSummary,
         textVerbosity |-> IF modelOptions.textVerbosity # ""
                           THEN modelOptions.textVerbosity
                           ELSE globalOptions.textVerbosity,
         include |-> IF modelOptions.include # JsonUndefined
                     THEN modelOptions.include ELSE globalOptions.include]

\* the .map of filterInput: the id goes when it is truthy
stripId(item) ==
    IF item.id # "undefined" /\ item.id # "" THEN [item EXCEPT !.id = "undefined"]
    ELSE item

mapSeq(f(_), s) == [i \in 1..Len(s) |-> f(s[i])]

\* filterInput(input)
filterInput(input) ==
    IF ~isArray(input) THEN input
    ELSE LET keep(item) == item.type # "item_reference"
         IN  JsonArray(mapSeq(stripId, SelectSeq(input.items, keep)))

\* isOpenCodeSystemPrompt(item, cachedPrompt): the item's text is the OpenCode prompt
isOpenCodeSystemPrompt(item) ==
    /\ item.role = "developer" \/ item.role = "system"
    /\ item.content = OpenCodePrompt

\* filterOpenCodeSystemPrompts(input)
filterOpenCodeSystemPrompts(input) ==
    IF ~isArray(input) THEN input
    ELSE LET keep(item) == item.role = "user" \/ ~isOpenCodeSystemPrompt(item)
         IN  JsonArray(SelectSeq(input.items, keep))

\* addCodexBridgeMessage(input, hasTools)
addCodexBridgeMessage(input, hasTools) ==
    IF ~hasTools \/ ~isArray(input) THEN input
    ELSE JsonArray(<<BridgeMessage>> \o input.items)

\* addToolGuideMessage(input, hasTools, messageText); "" is no message
addToolGuideMessage(input, hasTools, messageText) ==
    IF ~hasTools \/ ~isArray(input) \/ messageText = "" THEN input
    ELSE JsonArray(<<GuideMessage(messageText)>> \o input.items)

\* lines 315-318 without body.stream = true
requiredFieldsKeepStream(body) == [body EXCEPT !.store = "false"]

\* lines 315-318 and 686-689: store and stream as the backend requires them
requiredFields(body) == [body EXCEPT !.store = "false", !.stream = "true"]

\* TOOL_GUIDE_MESSAGE, from CODEX_TOOL_PROFILE
TOOL_GUIDE_MESSAGE == hEnv.toolGuide

\* transformRequestBody(body, codexInstructions, userConfig, codexMode)
transformRequestBody(body, codexInstructions, userConfig, codexMode) ==
    LET originalModel == body.model
        normalizedModel == normalizeModel(body.model)
        lookupModel == IF originalModel # Undefined /\ originalModel # << >>
                       THEN originalModel ELSE normalizedModel
        modelConfig == getModelConfig(lookupModel, userConfig)
        hasTools == body.tools # "undefined"
        filtered == filterInput(body.input)
        input == IF ~isArray(body.input) THEN body.input
                 ELSE IF codexMode
                 THEN addCodexBridgeMessage(filterOpenCodeSystemPrompts(filtered),
                                            hasTools)
                 ELSE addToolGuideMessage(filtered, hasTools, TOOL_GUIDE_MESSAGE)
    IN  [requiredFields(body) EXCEPT
            !.model = normalizedModel,
            !.instructions = codexInstructions,
            !.input = input,
            !.reasoning = getReasoningConfig(originalModel, modelConfig),
            !.include = IF modelConfig.include # JsonUndefined
                        THEN modelConfig.include ELSE JsonArray(DefaultInclude)]

\* transformRequestForCodex(init, url, instructions, userConfig, codexMode): the
\* parsed body goes through transformRequestBody and is serialized again
transformRequestForCodex(body, instructions, userConfig, codexMode) ==
    transformRequestBody(body, instructions, userConfig, codexMode)

\* -------------------------------------------- the handler that builds the body
\* Boolean(parsedBody.stream) read after parsedBody.stream = true
clientStreamAfterMutation(body) == requiredFields(body).stream = "true"

\* line 684: Boolean(parsedBody.stream)
clientStreamPreference(body) == body.stream = "true"

\* lines 694-701: the instructions sent upstream
resolveInstructions(instructions) ==
    LET text == IF instructions = Undefined THEN << >> ELSE instructions
    IN  IF trim(text) # << >> THEN text
        ELSE IF hEnv.disableInstructions THEN << >>
        ELSE CodexInstructions

\* lines 703-737: the environment override, then the caller's input as it is
buildInput(input) ==
    LET originalInput == IF isArray(input) THEN input.items ELSE << >>
        newInput == IF ~hEnv.disableEnvOverride THEN <<EnvOverrideMessage>> ELSE << >>
    IN  JsonArray(newInput \o originalInput)

\* lines 742-745: include defaults to the encrypted reasoning content
ensureInclude(include) ==
    IF ~isArray(include) \/ Len(include.items) = 0
    THEN JsonArray(DefaultInclude) ELSE include

\* lines 677-747: parsedBody as the second handleResponsesEndpoint sends it
minimalRequestBody(body) ==
    [requiredFields(body) EXCEPT
        !.instructions = resolveInstructions(body.instructions),
        !.input = buildInput(body.input),
        !.include = ensureInclude(body.include)]

\* ---------------------------------------------------------------- responses
\* One server-sent event: an incremental fragment ("delta") or the terminal
\* event ("done") whose payload is the whole result; chars is the length of its text.
FragmentChars == ExcerptChars \div 2
EventA == [type |-> "delta", id |-> "a", chars |-> FragmentChars]
EventB == [type |-> "delta", id |-> "b", chars |-> FragmentChars]
EventDone1 == [type |-> "done", id |-> "r1", chars |-> 20]
EventDone2 == [type |-> "done", id |-> "r2", chars |-> ExcerptChars + 1]
Events == {EventA, EventB, EventDone1, EventDone2}
NoEvent == [type |-> "", id |-> "", chars |-> 0]

RECURSIVE StreamsOf(_)
StreamsOf(n) ==
    IF n = 0 THEN {<< >>}
    ELSE LET S == StreamsOf(n - 1) IN S \cup {Append(st, e) : st \in S, e \in Events}

\* A response body: the upstream's event stream (broken: reading it fails before
\* its end), or the one JSON document made of a terminal event's payload.
SseBody(events, broken) ==
    [kind |-> "sse", events |-> events, broken |-> broken, payload |-> NoEvent]
JsonBody(payload) ==
    [kind |-> "json", events |-> << >>, broken |-> FALSE, payload |-> payload]
NoText == [kind |-> "", events |-> << >>, broken |-> FALSE, payload |-> NoEvent]

RECURSIVE sumChars(_)
sumChars(events) ==
    IF events = << >> THEN 0 ELSE Head(events).chars + sumChars(Tail(events))
\* the length of a body read as text
textLength(body) ==
    IF body.kind = "json" THEN body.payload.chars ELSE sumChars(body.events)

\* Response
NoResponse == [status |-> 0, body |-> NoText]
UpstreamStatuses == {200, 429}
UpstreamResponses ==
    [status : UpstreamStatuses,
     body : {SseBody(ev, b) : ev \in StreamsOf(MaxEvents), b \in BOOLEAN}]
\* fetch() rejects
FetchRejects == [status |-> -1, body |-> NoText]
\* Response.ok
ok(response) == response.status >= 200 /\ response.status <= 299

\* convertSseToJson(response, headers): the whole stream is consumed; when it can
\* be read to its end and ends in the terminal event the result is one JSON
\* document, the terminal event's payload, under the upstream status; otherwise
\* consolidation fails and the call rejects
convertSseToJson(response) ==
    LET events == response.body.events IN
    IF \/ response.body.broken
       \/ events = << >>
       \/ events[Len(events)].type # "done"
    THEN [threw |-> TRUE, value |-> NoResponse]
    ELSE [threw |-> FALSE,
          value |-> [status |-> response.status,
                     body |-> JsonBody(events[Len(events)])]]

\* String.prototype.slice(0, n) on a text of the given length: the length left
sliceLength(length, n) == IF length < n THEN length ELSE n

\* ProxyErrorLog as handleResponsesEndpoint fills it (lines 323-332, 805-817)
ProxyErrorLog(response, model) ==
    [status |-> response.status,
     model |-> model,
     responseBody |-> sliceLength(textLength(response.body), ExcerptChars)]

\* what has been written to the caller: status line and body
NoReply == [res |-> NoResp, body |-> NoText]

\* ------------------------------------------------------------- tool names
\* null
Null == <<"null">>

\* NAME_MAP, the properties of the object literal (logging.ts lines 87-121)
NAME_MAP(key) ==
    CASE key = <<"t", "o", "d", "o", "_", "w", "r", "i", "t", "e">>
           -> <<"T", "o", "d", "o", "W", "r", "i", "t", "e">>
      [] key = <<"t", "o", "d", "o", "w", "r", "i", "t", "e">>
           -> <<"T", "o", "d", "o", "W", "r", "i", "t", "e">>
      [] key = <<"t", "o", "d", "o", "_", "r", "e", "a", "d">>
           -> <<"T", "o", "d", "o", "R", "e", "a", "d">>
      [] key = <<"t", "o", "d", "o", "r", "e", "a", "d">>
           -> <<"T", "o", "d", "o", "R", "e", "a", "d">>
      [] key = <<"e", "x", "i", "t", "_", "p", "l", "a", "n", "_", "m", "o", "d", "e">>
           -> <<"e", "x", "i", "t", "_", "p", "l", "a", "n", "_", "m", "o", "d", "e">>
      [] key = <<"l", "s">>
           -> <<"L", "S">>
      [] key = <<"g", "l", "o", "b">>
           -> <<"G", "l", "o", "b">>
      [] key = <<"g", "r", "e", "p">>
           -> <<"G", "r", "e", "p">>
      [] key = <<"r", "e", "a", "d">>
           -> <<"R", "e", "a", "d">>
      [] key = <<"w", "r", "i", "t", "e">>
           -> <<"W", "r", "i", "t", "e">>
      [] key = <<"e", "d", "i", "t">>
           -> <<"E", "d", "i", "t">>
      [] key = <<"m", "u", "l", "t", "i", "_", "e", "d", "i", "t">>
           -> <<"M", "u", "l", "t", "i", "E", "d", "i", "t">>
      [] key = <<"m", "u", "l", "t", "i", "e", "d", "i", "t">>
           -> <<"M", "u", "l", "t", "i", "E", "d", "i", "t">>
      [] key = <<"n", "o", "t", "e", "b", "o", "o", "k", "_", "r", "e", "a", "d">>
           -> <<"N", "o", "t", "e", "b", "o", "o", "k", "R", "e", "a", "d">>
      [] key = <<"n", "o", "t", "e", "b", "o", "o", "k", "e", "d", "i", "t">>
           -> <<"N", "o", "t", "e", "b", "o", "o", "k", "E", "d", "i", "t">>
      [] key = <<"n", "o", "t", "e", "b", "o", "o", "k", "_", "e", "d", "i", "t">>
           -> <<"N", "o", "t", "e", "b", "o", "o", "k", "E", "d", "i", "t">>
      [] key = <<"b", "a", "s", "h">>
           -> <<"B", "a", "s", "h">>
      [] key = <<"w", "e", "b", "_", "f", "e", "t", "c", "h">>
           -> <<"W", "e", "b", "F", "e", "t", "c", "h">>
      [] key = <<"w", "e", "b", "f", "e", "t", "c", "h">>
           -> <<"W", "e", "b", "F", "e", "t", "c", "h">>
      [] key = <<"w", "e", "b", "_", "s", "e", "a", "r", "c", "h">>
           -> <<"W", "e", "b", "S", "e", "a", "r", "c", "h">>
      [] key = <<"w", "e", "b", "s", "e", "a", "r", "c", "h">>
           -> <<"W", "e", "b", "S", "e", "a", "r", "c", "h">>
      [] key = <<"t", "a", "s", "k">>
           -> <<"T", "a", "s", "k">>
      [] OTHER -> Undefined

\* Object.prototype.constructor, which NAME_MAP inherits
sConstructor == <<"c", "o", "n", "s", "t", "r", "u", "c", "t", "o", "r">>
ObjectConstructor == <<"function Object() { [native code] }">>

\* NAME_MAP[key]: a property of the literal, else one inherited from
\* Object.prototype; of the inherited names only "constructor" is made of
\* a-z, 0-9 and "_" with no "_" run at either end, as every canonical key is
nameMapLookup(key) ==
    IF NAME_MAP(key) # Undefined THEN NAME_MAP(key)
    ELSE IF key = sConstructor THEN ObjectConstructor
    ELSE Undefined

\* typeof name === "string"
isString(name) == name # Undefined /\ name # Null /\ name # ObjectConstructor

isAlnum(c) ==
    c \in {"a", "b", "c", "d", "e", "f", "g", "h", "i", "j", "k", "l", "m",
           "n", "o", "p", "q", "r", "s", "t", "u", "v", "w", "x", "y", "z",
           "0", "1", "2", "3", "4", "5", "6", "7", "8", "9"}

\* .replace(/[^a-z0-9]+/g, "_")
RECURSIVE skipNonAlnum(_)
skipNonAlnum(s) ==
    IF s # << >> /\ ~isAlnum(Head(s)) THEN skipNonAlnum(Tail(s)) ELSE s
RECURSIVE replaceNonAlnumRuns(_)
replaceNonAlnumRuns(s) ==
    IF s = << >> THEN << >>
    ELSE IF isAlnum(Head(s)) THEN <<Head(s)>> \o replaceNonAlnumRuns(Tail(s))
    ELSE <<"_">> \o replaceNonAlnumRuns(skipNonAlnum(Tail(s)))

\* canonicalKey(name), lines 123-126
canonicalKey(name) ==
    IF ~isString(name) \/ name = << >> THEN Null
    ELSE replaceNonAlnumRuns(toLowerCase(trim(name)))

\* remapName(name), lines 128-132
remapName(name) ==
    LET key == canonicalKey(name) IN
    IF key = Null \/ key = << >> THEN Null
    ELSE IF nameMapLookup(key) # Undefined THEN nameMapLookup(key) ELSE Null

\* an item of responseJson.output; type "null" is a null in the array
NullItem == [type |-> "null", name |-> Undefined]

\* the body of the loop of normalizeToolNames, lines 139-145
normalizeItem(item) ==
    IF item.type = "function_call" /\ remapName(item.name) # Null
    THEN [item EXCEPT !.name = remapName(item.name)]
    ELSE item

\* normalizeToolNames(responseJson), lines 134-150
normalizeToolNames(responseJson) ==
    IF ~isArray(responseJson.output) THEN responseJson
    ELSE [responseJson EXCEPT
            !.output = JsonArray([i \in 1..Len(responseJson.output.items) |->
                                    normalizeItem(responseJson.output.items[i])])]

\* the names looked at: two words, one of them or none, with or without a
\* separator between them and a blank before and after, and no name at all
ToolNames ==
    { lead \o first \o sep \o second \o trail :
        lead \in {<< >>, <<" ">>},
        first \in {<< >>, <<"T", "O", "D", "O">>, <<"T", "o", "d", "o">>,
                   <<"c", "o", "n", "s", "t", "r", "u", "c", "t", "o", "r">>},
        sep \in {<< >>, <<"_">>, <<"-", " ">>},
        second \in {<< >>, <<"W", "R", "I", "T", "E">>, <<"W", "r", "i", "t", "e">>},
        trail \in {<< >>, <<" ">>} } \cup {Undefined}
ToolItems == [type : {"function_call", "message"}, name : ToolNames] \cup {NullItem}
NeighbourItems ==
    {NullItem,
     [type |-> "message", name |-> <<"w", "r", "i", "t", "e">>],
     [type |-> "function_call", name |-> <<"B", "A", "S", "H">>]}
ToolOutputs ==
    {<< >>} \cup {<<it>> : it \in ToolItems}
      \cup {<<it, nb>> : it \in ToolItems, nb \in NeighbourItems}
      \cup {<<nb, it>> : it \in ToolItems, nb \in NeighbourItems}
NoJson == [id |-> "", output |-> JsonUndefined]
ToolResponses ==
    [id : {"r1"}, output : {JsonUndefined} \cup {JsonArray(o) : o \in ToolOutputs}]

\* ---------------------------------------------------------- correlation id
\* MaxTraced is the number of requests whose correlation ids are compared
MaxTraced == 3

\* prompt_cache_key of a parsed body: absent, null or a string
CacheKeys == {"undefined", "null", "", "key_1", "key_2"}
\* randomUUID(): the values it can return, 0 standing for none
UUIDs == 1..MaxTraced
NoUuid == 0

\* the left side of || : the right side is taken for every falsy value
isFalsy(key) == key \in {"undefined", "null", ""}

\* the left side of ?? : the right side is taken for undefined and null alone
isNullish(key) == key \in {"undefined", "null"}

\* lines 281 and 748: parsedBody.prompt_cache_key ?? randomUUID()
traceIdOf(key, uuid) ==
    IF isNullish(key) THEN [key |-> "", uuid |-> uuid]
    ELSE [key |-> key, uuid |-> NoUuid]

\* ------------------------------------------------ the environment of a handler
NoEnv == [codexMode |-> FALSE, toolGuide |-> "", forceJson |-> FALSE,
          disableEnvOverride |-> FALSE, disableInstructions |-> FALSE]
\* the first handler reads CODEX_MODE, CODEX_TOOL_PROFILE and CODEX_PROXY_FORCE_JSON,
\* the second CODEX_PROXY_DISABLE_ENV_OVERRIDE and CODEX_PROXY_DISABLE_CODEX_INSTRUCTIONS
EnvsOf(ver) ==
    IF ver = 1
    THEN { [NoEnv EXCEPT !.codexMode = c, !.toolGuide = g, !.forceJson = f] :
             c \in BOOLEAN, g \in {"", "TOOL_REMAP_MESSAGE"}, f \in BOOLEAN }
    ELSE { [NoEnv EXCEPT !.disableEnvOverride = o, !.disableInstructions = i] :
             o \in BOOLEAN, i \in BOOLEAN }

PathIdle == pathIn = << >> /\ pathOut = << >>
ValidIdle == vCreds = NoCreds /\ vNow = 0 /\ vOut = "none"
ModelIdle == mModel = Undefined /\ mConfig = NoOptions /\ mOut = NoModelOut
TraceIdle == traces = << >>
ToolsIdle == toolsIn = NoJson /\ toolsOut = NoJson
SideIdle == TraceIdle /\ ToolsIdle
\* no request is looked at on its own
HandlerIdle ==
    /\ hVer = 0 /\ hEnv = NoEnv /\ hpc = "idle"
    /\ parsedBody = NoBody /\ clientStreamRequested = FALSE /\ sentBody = NoBody
    /\ posts = 0 /\ upstreamResponse = NoResponse /\ responseForClient = NoResponse
    /\ logged = << >> /\ logFile = << >> /\ reply = NoReply

InitMain ==
    /\ now = 0
    /\ creds = NoCreds
    /\ refreshPromise = 0
    /\ disk \in { NoCreds, CorruptFile,
                  [tok |-> 1, expires |-> bufferMs],
                  [tok |-> 1, expires |-> LifetimeMs] }
    /\ pc = [p \in Procs |-> IF p = Boot THEN "start" ELSE "idle"]
    /\ req = [r \in Reqs |-> NoReq]
    /\ resp = [r \in Reqs |-> NoResp]
    /\ cached = [p \in Procs |-> NoCreds]
    /\ mq = << >>
    /\ waiters = << >>
    /\ efCall = NoCall
    /\ nextTok = 2
    /\ nHandles = 0
    /\ joined = [r \in Reqs |-> 0]
    /\ issued = [p \in Procs |-> 0]
    /\ logins = [p \in Procs |-> 0]
    /\ obs = [p \in Procs |-> NoObs]
    /\ upstream = [r \in Reqs |-> 0]
    /\ outcome = [h \in Reqs |-> NoOutcome]
    /\ io = [reads |-> 0, writes |-> 0]

PureIdle == PathIdle /\ ValidIdle /\ ModelIdle /\ HandlerIdle /\ SideIdle

Init == InitMain /\ PureIdle


\* ------------------------------------------------- returning to the caller
\* ensureFreshCredentials()/bootstrapCredentials() return normally to task p
\* while authState.credentials is c.  For a handler the code after line 283
\* runs: 401 when credentials are absent, else transformRequestForCodex() is
\* called and awaited.  For startServer() the listener is created.
Return(p, c) ==
    /\ obs' = [obs EXCEPT ![p] = [ret |-> "returned", creds |-> c]]
    /\ IF p = Boot
         THEN /\ pc' = [pc EXCEPT ![p] = "listening"]
              /\ resp' = resp
         ELSE IF c = NoCreds
         THEN /\ pc' = [pc EXCEPT ![p] = "done"]
              /\ resp' = [resp EXCEPT ![p] =
                            sendJson(401, "error", <<"Authentication required">>)]
         ELSE /\ pc' = [pc EXCEPT ![p] = "transform"]
              /\ resp' = resp

\* ensureFreshCredentials()/bootstrapCredentials() reject: startServer() exits
\* the process, a handler's error reaches the listener's catch (500)
Throw(p) ==
    /\ obs' = [obs EXCEPT ![p] = [ret |-> "threw", creds |-> NoCreds]]
    /\ IF p = Boot
         THEN /\ pc' = [pc EXCEPT ![p] = "exited"]
              /\ resp' = resp
         ELSE /\ pc' = [pc EXCEPT ![p] = "done"]
              /\ resp' = [resp EXCEPT ![p] = listenerCatch(resp[p])]

\* --------------------------------------------------- bootstrapCredentials
\* an adoption that leaves authState.credentials as it is
adoptNothing(file) == creds
\* line 148: authState.credentials = cached
adoptCached(file) == file

\* a test that sends every bootstrap to the refresh
hasCachedAlways(file) == TRUE
\* line 152: if (cached)
hasCached(file) == file # NoCreds

\* bootstrapCredentials() up to its first suspension, run by task p
bootstrapCredentials(p) ==
    IF hasValidAccess(creds, now)
    THEN /\ Return(p, creds)
         /\ UNCHANGED <<creds, cached, issued, logins, io>>
    ELSE LET file == loadStoredCredentials(disk) IN
         /\ io' = [io EXCEPT !.reads = @ + 1]
         /\ IF hasValidAccess(file, now)
            THEN /\ creds' = adoptCached(file)
                 /\ Return(p, adoptCached(file))
                 /\ UNCHANGED <<cached, issued, logins>>
            ELSE IF hasCached(file)
            THEN \* await refreshCredentials(cached): the token exchange is sent
                 /\ pc' = [pc EXCEPT ![p] = "bsRefresh"]
                 /\ cached' = [cached EXCEPT ![p] = file]
                 /\ issued' = [issued EXCEPT ![p] = @ + 1]
                 /\ UNCHANGED <<creds, resp, obs, logins>>
            ELSE \* await interactiveLogin()
                 /\ pc' = [pc EXCEPT ![p] = "login"]
                 /\ logins' = [logins EXCEPT ![p] = @ + 1]
                 /\ UNCHANGED <<creds, resp, obs, cached, issued>>

\* ------------------------------------------------- ensureFreshCredentials
\* lines 171-190: credentials absent or expired
ensureFreshSlow(r) ==
    IF creds = NoCreds
    THEN /\ bootstrapCredentials(r)
         /\ UNCHANGED <<refreshPromise, efCall, waiters, nHandles, joined, outcome>>
    ELSE /\ IF refreshPromise = 0
            THEN \* refreshCredentials(authState.credentials).then().catch().finally()
                 /\ refreshPromise' = nHandles + 1
                 /\ nHandles' = nHandles + 1
                 /\ efCall' = [h |-> nHandles + 1, current |-> creds]
                 /\ issued' = [issued EXCEPT ![r] = @ + 1]
                 /\ outcome' = [outcome EXCEPT ![nHandles + 1] =
                                  [st |-> "pending", rec |-> NoCreds]]
                 /\ joined' = [joined EXCEPT ![r] = nHandles + 1]
            ELSE /\ joined' = [joined EXCEPT ![r] = refreshPromise]
                 /\ UNCHANGED <<refreshPromise, nHandles, efCall, issued, outcome>>
         \* await authState.refreshPromise
         /\ waiters' = Append(waiters, r)
         /\ pc' = [pc EXCEPT ![r] = "awaitRefresh"]
         /\ UNCHANGED <<creds, resp, obs, cached, logins, io>>

\* ensureFreshCredentials() without the fast path of lines 167-169
ensureFreshNoFastPath(r) == ensureFreshSlow(r)

\* ensureFreshCredentials() up to its first suspension, called by handler r
ensureFreshCredentials(r) ==
    IF hasValidAccess(creds, now)
    THEN /\ Return(r, creds)
         /\ UNCHANGED <<creds, refreshPromise, efCall, waiters, nHandles, joined,
                        outcome, cached, issued, logins, io>>
    ELSE ensureFreshSlow(r)


\* ------------------------------------------------------------ the listener
\* the dispatch with /health answered only once credentials are in memory
routeHealthWhenAuthenticated(method, normalized) ==
    IF method = "GET" /\ normalized = PathHealth /\ creds # NoCreds THEN "health"
    ELSE IF StartsWith(normalized, PathResponses) THEN "responses"
    ELSE "notfound"

\* the dispatch of the request listener (lines 369-379) on the normalized path
route(method, normalized) ==
    IF method = "GET" /\ normalized = PathHealth THEN "health"
    ELSE IF StartsWith(normalized, PathResponses) THEN "responses"
    ELSE "notfound"

\* what the token endpoint or the login flow can answer
Grant == [tok |-> nextTok, expires |-> now + LifetimeMs]
RefreshOutcomes == {"ok", "failed", "noclaim"}
LoginOutcomes == {"ok", "failed"}

\* lines 263-274 without the check for an empty body
validateBodyNoEmptyCheck(raw) ==
    IF jsonParse(raw) = "throws"
    THEN sendJson(400, "error", <<"Invalid JSON body: ", "detail">>)
    ELSE NoResp

\* lines 263-274: the reply to a body that is empty or does not parse, else none
validateBody(raw) ==
    IF raw = << >>
    THEN sendJson(400, "error", <<"Request body is required">>)
    ELSE IF jsonParse(raw) = "throws"
    THEN sendJson(400, "error", <<"Invalid JSON body: ", "detail">>)
    ELSE NoResp

\* startServer(): await bootstrapCredentials() before the listener exists
StartServer ==
    /\ pc[Boot] = "start"
    /\ bootstrapCredentials(Boot)
    /\ UNCHANGED <<now, refreshPromise, disk, req, mq, waiters, efCall, nextTok,
                   nHandles, joined, upstream, outcome>>
    /\ UNCHANGED pureVars

\* a handler that reads the body of a request whatever its method
methodAllowedAlways(m) == TRUE
\* line 257: if (req.method !== "POST") is not taken
methodAllowed(m) == m = "POST"

\* a request reaches the listener: lines 364-379 and 254-262
Arrive(r, m, path) ==
    /\ pc[Boot] = "listening"
    /\ mq = << >>
    /\ pc[r] = "idle"
    /\ r <= 2 \/ pc[r - 1] # "idle"
    /\ req' = [req EXCEPT ![r] = [method |-> m, path |-> path, body |-> NotRead]]
    /\ LET normalized == normalizePath(path)
           to == route(m, normalized)
       IN  IF to = "health"
           THEN /\ resp' = [resp EXCEPT ![r] = sendJson(200, "ok", <<"true">>)]
                /\ pc' = [pc EXCEPT ![r] = "done"]
           ELSE IF to = "responses"
           THEN IF ~methodAllowed(m)
                THEN /\ resp' = [resp EXCEPT ![r] =
                                   sendJson(405, "error", <<"Method not allowed">>)]
                     /\ pc' = [pc EXCEPT ![r] = "done"]
                ELSE /\ resp' = resp
                     /\ pc' = [pc EXCEPT ![r] = "readBody"]
           ELSE /\ resp' = [resp EXCEPT ![r] = sendJson(404, "error", <<"Not found">>)]
                /\ pc' = [pc EXCEPT ![r] = "done"]
    /\ UNCHANGED <<now, creds, refreshPromise, disk, cached, mq, waiters, efCall,
                   nextTok, nHandles>>
    /\ UNCHANGED histVars
    /\ UNCHANGED pureVars

\* the request body has been read: lines 262-283
BodyRead(r, raw) ==
    /\ pc[r] = "readBody"
    /\ mq = << >>
    /\ req' = [req EXCEPT ![r].body = raw]
    /\ IF validateBody(raw) # NoResp
       THEN /\ resp' = [resp EXCEPT ![r] = validateBody(raw)]
            /\ pc' = [pc EXCEPT ![r] = "done"]
            /\ UNCHANGED <<creds, refreshPromise, efCall, waiters, nHandles, cached>>
            /\ UNCHANGED histVars
       ELSE IF jsonParse(raw) = "null"
       THEN \* parsedBody.metadata on null: TypeError, caught by the listener
            /\ resp' = [resp EXCEPT ![r] = listenerCatch(resp[r])]
            /\ pc' = [pc EXCEPT ![r] = "done"]
            /\ UNCHANGED <<creds, refreshPromise, efCall, waiters, nHandles, cached>>
            /\ UNCHANGED histVars
       ELSE /\ ensureFreshCredentials(r)
            /\ UNCHANGED upstream
    /\ UNCHANGED <<now, disk, mq, nextTok>>
    /\ UNCHANGED pureVars

\* a refreshCredentials() that persists before extractAccountId() is called
refreshPersistsUnchecked(out) == out # "failed"
\* lines 128-137: refreshCredentials() reaches persistCredentials() only when the
\* exchange did not fail (line 129) and extractAccountId() found the claim (line 135)
refreshPersists(out) == out = "ok"

\* the token exchange started at line 177 answers; refreshCredentials() runs to
\* its end (lines 129-138) and settles, which schedules the .then/.catch reaction
RefreshSettles(out) ==
    /\ efCall # NoCall
    /\ mq = << >>
    /\ efCall' = NoCall
    /\ disk' = IF refreshPersists(out) THEN Grant ELSE disk
    /\ io' = IF refreshPersists(out) THEN [io EXCEPT !.writes = @ + 1] ELSE io
    /\ IF out = "ok"
       THEN /\ nextTok' = nextTok + 1
            /\ outcome' = [outcome EXCEPT ![efCall.h] = [st |-> "ok", rec |-> Grant]]
            /\ mq' = << [NoTask EXCEPT !.t = "thenCatch", !.h = efCall.h,
                                       !.ok = TRUE, !.rec = Grant] >>
       ELSE /\ outcome' = [outcome EXCEPT ![efCall.h] = [st |-> "failed", rec |-> NoCreds]]
            /\ mq' = << [NoTask EXCEPT !.t = "thenCatch", !.h = efCall.h] >>
            /\ UNCHANGED nextTok
    /\ UNCHANGED <<now, creds, refreshPromise, pc, req, resp, cached, waiters, nHandles,
                   joined, issued, logins, obs, upstream>>
    /\ UNCHANGED pureVars

\* a .catch that leaves the credentials as they are
credentialsKept == creds
\* line 183: authState.credentials = null
credentialsAfterCatch == NoCreds

\* lines 178-184: .then stores the new record, .catch clears the credentials
RefreshThenCatch ==
    /\ mq # << >>
    /\ Head(mq).t = "thenCatch"
    /\ creds' = IF Head(mq).ok THEN Head(mq).rec ELSE credentialsAfterCatch
    /\ mq' = Append(Tail(mq), [NoTask EXCEPT !.t = "finally", !.h = Head(mq).h])
    /\ UNCHANGED <<now, refreshPromise, disk, pc, req, resp, cached, waiters, efCall,
                   nextTok, nHandles>>
    /\ UNCHANGED histVars
    /\ UNCHANGED pureVars

\* lines 185-187: .finally clears the handle; the promise settles and the
\* continuation of every `await authState.refreshPromise` is scheduled, in order
\* a promise that resumes only the first of the handlers that await it
ResumptionsOfFirst(ws, h) ==
    IF ws = << >> THEN << >>
    ELSE <<[NoTask EXCEPT !.t = "resume", !.h = h, !.r = Head(ws)]>>
RECURSIVE Resumptions(_, _)
Resumptions(ws, h) ==
    IF ws = << >> THEN << >>
    ELSE <<[NoTask EXCEPT !.t = "resume", !.h = h, !.r = Head(ws)]>>
         \o Resumptions(Tail(ws), h)

\* a .finally that leaves the handle as it is
refreshPromiseKept == refreshPromise
\* line 186: authState.refreshPromise = null
refreshPromiseCleared == 0

RefreshFinally ==
    /\ mq # << >>
    /\ Head(mq).t = "finally"
    /\ refreshPromise' = refreshPromiseCleared
    /\ mq' = Tail(mq) \o Resumptions(waiters, Head(mq).h)
    /\ waiters' = << >>
    /\ UNCHANGED <<now, creds, disk, pc, req, resp, cached, efCall, nextTok, nHandles>>
    /\ UNCHANGED histVars
    /\ UNCHANGED pureVars

\* an ensureFreshCredentials() that returns after the await whatever it finds
needsBootstrapNever == FALSE
\* line 192: if (!authState.credentials)
needsBootstrap == creds = NoCreds

\* lines 190-194: a handler resumes after `await authState.refreshPromise`
WaiterResumes ==
    /\ mq # << >>
    /\ Head(mq).t = "resume"
    /\ mq' = Tail(mq)
    /\ LET r == Head(mq).r IN
         IF needsBootstrap
         THEN bootstrapCredentials(r)
         ELSE /\ Return(r, creds)
              /\ UNCHANGED <<creds, cached, issued, logins, io>>
    /\ UNCHANGED <<now, refreshPromise, disk, req, waiters, efCall, nextTok, nHandles,
                   joined, upstream, outcome>>
    /\ UNCHANGED pureVars

\* the token exchange of bootstrapCredentials (line 154) answers
BootstrapRefreshSettles(p, out) ==
    /\ pc[p] = "bsRefresh"
    /\ mq = << >>
    /\ disk' = IF refreshPersists(out) THEN Grant ELSE disk
    /\ io' = IF refreshPersists(out) THEN [io EXCEPT !.writes = @ + 1] ELSE io
    /\ IF out = "ok"
       THEN /\ nextTok' = nextTok + 1
            /\ creds' = Grant
            /\ Return(p, Grant)
            /\ UNCHANGED logins
       ELSE \* caught at line 156; line 163: await interactiveLogin()
            /\ pc' = [pc EXCEPT ![p] = "login"]
            /\ logins' = [logins EXCEPT ![p] = @ + 1]
            /\ UNCHANGED <<nextTok, creds, resp, obs>>
    /\ cached' = [cached EXCEPT ![p] = NoCreds]
    /\ UNCHANGED <<now, refreshPromise, req, mq, waiters, efCall, nHandles,
                   joined, issued, upstream, outcome>>
    /\ UNCHANGED pureVars

\* interactiveLogin() (line 163) ends
LoginSettles(p, out) ==
    /\ pc[p] = "login"
    /\ mq = << >>
    /\ IF out = "ok"
       THEN /\ disk' = Grant
            /\ io' = [io EXCEPT !.writes = @ + 1]
            /\ nextTok' = nextTok + 1
            /\ creds' = Grant
            /\ Return(p, Grant)
       ELSE /\ Throw(p)
            /\ UNCHANGED <<disk, io, nextTok, creds>>
    /\ UNCHANGED <<now, refreshPromise, req, cached, mq, waiters, efCall, nHandles,
                   joined, issued, logins, upstream, outcome>>
    /\ UNCHANGED pureVars

\* transformRequestForCodex() has answered: lines 298-308
TransformDone(r) ==
    /\ pc[r] = "transform"
    /\ mq = << >>
    /\ IF creds = NoCreds
       THEN \* authState.credentials.accountId on null: TypeError
            /\ resp' = [resp EXCEPT ![r] = listenerCatch(resp[r])]
            /\ pc' = [pc EXCEPT ![r] = "done"]
            /\ UNCHANGED upstream
       ELSE /\ upstream' = [upstream EXCEPT ![r] = @ + 1]
            /\ pc' = [pc EXCEPT ![r] = "fetch"]
            /\ UNCHANGED resp
    /\ UNCHANGED <<now, creds, refreshPromise, disk, req, cached, mq, waiters, efCall,
                   nextTok, nHandles, joined, issued, logins, obs, outcome, io>>
    /\ UNCHANGED pureVars

\* the upstream fetch (line 308) answers and the response is forwarded
FetchDone(r, status) ==
    /\ pc[r] = "fetch"
    /\ mq = << >>
    /\ resp' = [resp EXCEPT ![r] =
                  IF status = 0 THEN listenerCatch(resp[r]) ELSE forwardResponse(status)]
    /\ pc' = [pc EXCEPT ![r] = "done"]
    /\ UNCHANGED <<now, creds, refreshPromise, disk, req, cached, mq, waiters, efCall,
                   nextTok, nHandles>>
    /\ UNCHANGED histVars
    /\ UNCHANGED pureVars

\* Time passes between I/O callbacks.  Date.now() is read by hasValidAccess only,
\* and every expiry is set relative to it, so the clock is advanced only while it
\* can make a difference: while the credentials in memory are still valid.
Tick ==
    /\ mq = << >>
    /\ pc[Boot] = "listening"
    /\ hasValidAccess(creds, now)
    /\ now < MaxTicks * TickMs
    /\ now' = now + TickMs
    /\ UNCHANGED <<creds, refreshPromise, disk, pc, req, resp, cached, mq, waiters,
                   efCall, nextTok, nHandles>>
    /\ UNCHANGED histVars
    /\ UNCHANGED pureVars

Next ==
    \/ StartServer
    \/ \E r \in Reqs : \E m \in MethodsOf(r), path \in PathsOf(r) : Arrive(r, m, path)
    \/ \E r \in Reqs : \E raw \in BodiesOf(r) : BodyRead(r, raw)
    \/ \E out \in RefreshOutcomes : RefreshSettles(out)
    \/ RefreshThenCatch
    \/ RefreshFinally
    \/ WaiterResumes
    \/ \E p \in Procs, out \in RefreshOutcomes : BootstrapRefreshSettles(p, out)
    \/ \E p \in Procs, out \in LoginOutcomes : LoginSettles(p, out)
    \/ \E r \in Reqs : TransformDone(r)
    \/ \E r \in Reqs : \E status \in UpstreamOf(r) : FetchDone(r, status)
    \/ Tick

Spec == Init /\ [][Next]_vars

\* The event loop runs every promise reaction that is queued, and every external
\* call (the token exchange of a refresh, the interactive login) settles, one
\* way or the other.
Fairness ==
    /\ WF_vars(RefreshThenCatch)
    /\ WF_vars(RefreshFinally)
    /\ WF_vars(WaiterResumes)
    /\ WF_vars(\E out \in RefreshOutcomes : RefreshSettles(out))
    /\ \A p \in Procs : WF_vars(\E out \in RefreshOutcomes : BootstrapRefreshSettles(p, out))
    /\ \A p \in Procs : WF_vars(\E out \in LoginOutcomes : LoginSettles(p, out))

\* ensureFreshCredentials is called only for a POST to the proxied endpoint
\* whose body parses to an object, and nothing a handler does after it has
\* returned touches the credentials: the calls are followed with requests of
\* that kind alone, up to the return of ensureFreshCredentials.
NextAuth ==
    \/ StartServer
    \/ \E r \in Reqs : Arrive(r, "POST", PathV1 \o PathResponses)
    \/ \E r \in Reqs : BodyRead(r, BodyObject)
    \/ \E out \in RefreshOutcomes : RefreshSettles(out)
    \/ RefreshThenCatch
    \/ RefreshFinally
    \/ WaiterResumes
    \/ \E p \in Procs, out \in RefreshOutcomes : BootstrapRefreshSettles(p, out)
    \/ \E p \in Procs, out \in LoginOutcomes : LoginSettles(p, out)
    \/ Tick

FairSpec == Init /\ [][NextAuth]_vars /\ Fairness


\* ------------------------------------------------ normalizePath on its own
PathAlphabet == {"/", "v", "1", "x"}
PathInputs ==
    UNION { [1..n -> PathAlphabet] : n \in 0..MaxPathLen }
      \cup ReqPaths \cup {PathResponses}

\* the server is not running
MainIdle ==
    /\ InitMain
    /\ disk = NoCreds

InitPath ==
    /\ MainIdle
    /\ pathIn \in PathInputs /\ pathOut = << >>
    /\ ValidIdle /\ ModelIdle /\ HandlerIdle /\ SideIdle

ApplyNormalizePath ==
    /\ pathOut = << >>
    /\ pathOut' = normalizePath(pathIn)
    /\ UNCHANGED <<now, creds, refreshPromise, disk, pc, req, resp, cached, mq, waiters,
                   efCall, nextTok, nHandles, pathIn, vCreds, vNow, vOut>>
    /\ UNCHANGED <<histVars, modelVars, handlerVars, sideVars>>

SpecPath == InitPath /\ [][ApplyNormalizePath]_vars

\* ------------------------------------------------ hasValidAccess on its own
ValidInputs ==
    {NoCreds} \cup
    [tok : {1}, expires : (bufferMs - MaxSkew)..(bufferMs + 2 * MaxSkew)]

InitValid ==
    /\ MainIdle
    /\ vCreds \in ValidInputs /\ vNow \in 0..MaxSkew /\ vOut = "none"
    /\ PathIdle /\ ModelIdle /\ HandlerIdle /\ SideIdle

ApplyHasValidAccess ==
    /\ vOut = "none"
    /\ vOut' = IF hasValidAccess(vCreds, vNow) THEN "true" ELSE "false"
    /\ UNCHANGED <<now, creds, refreshPromise, disk, pc, req, resp, cached, mq, waiters,
                   efCall, nextTok, nHandles, pathIn, pathOut, vCreds, vNow>>
    /\ UNCHANGED <<histVars, modelVars, handlerVars, sideVars>>

SpecValid == InitValid /\ [][ApplyHasValidAccess]_vars

\* ------------------------- normalizeModel and getReasoningConfig on their own
serverVars == <<now, creds, refreshPromise, disk, pc, req, resp, cached, mq, waiters,
                efCall, nextTok, nHandles>>

ModelConfigs == { [NoOptions EXCEPT !.reasoningEffort = e] : e \in Efforts \cup {""} }

InitModel ==
    /\ MainIdle
    /\ mModel \in ModelNames /\ mConfig \in ModelConfigs /\ mOut = NoModelOut
    /\ PathIdle /\ ValidIdle /\ HandlerIdle /\ SideIdle

\* transformRequestBody, lines 298-299, 313 and 353-357: the model and the
\* reasoning configuration of the body sent upstream
ApplyModel ==
    /\ mOut = NoModelOut
    /\ mOut' = [model |-> normalizeModel(mModel),
                reasoning |-> getReasoningConfig(mModel, mConfig)]
    /\ UNCHANGED <<mModel, mConfig>>
    /\ UNCHANGED <<serverVars, histVars, pathVars, validVars, handlerVars, sideVars>>

SpecModel == InitModel /\ [][ApplyModel]_vars

\* ------------------------------------------------- one request on its own
\* The request has a body that parses and the credentials in memory are valid,
\* so ensureFreshCredentials() returns at once.
RECURSIVE InputsOf(_)
InputsOf(n) ==
    IF n = 0 THEN {<< >>}
    ELSE LET S == InputsOf(n - 1) IN S \cup {Append(in, it) : in \in S, it \in Items}
BodyInputs ==
    {JsonUndefined, JsonString} \cup {JsonArray(in) : in \in InputsOf(MaxItems)}
BodyIncludes == {JsonUndefined, JsonArray(<< >>), JsonArray(<<"usage">>)}

\* the bodies whose transformation is looked at
TransformBodies ==
    [model : {Undefined, sCODEX \o sMini},
     store : {"undefined", "true"},
     stream : {"undefined", "true", "false"},
     instructions : {Undefined, sBlank, sBrief},
     input : BodyInputs,
     include : BodyIncludes,
     tools : {"undefined", "present"},
     prompt_cache_key : {"undefined", "key_1"},
     reasoning : {NoReasoning}]

\* the bodies whose answer is looked at
RelayBodies ==
    { [NoBody EXCEPT !.store = "undefined", !.stream = st, !.tools = "undefined",
                     !.prompt_cache_key = "undefined"] :
        st \in {"undefined", "true", "false"} }

HandlerStart ==
    /\ hpc = "parsed" /\ clientStreamRequested = FALSE /\ sentBody = NoBody
    /\ posts = 0 /\ upstreamResponse = NoResponse /\ responseForClient = NoResponse
    /\ logged = << >> /\ logFile = << >> /\ reply = NoReply

InitTransform ==
    /\ MainIdle /\ PathIdle /\ ValidIdle /\ ModelIdle /\ SideIdle
    /\ hVer \in {1, 2}
    /\ hEnv \in {e \in EnvsOf(hVer) : e.forceJson = FALSE}
    /\ parsedBody \in TransformBodies
    /\ HandlerStart

InitRelay ==
    /\ MainIdle /\ PathIdle /\ ValidIdle /\ ModelIdle /\ SideIdle
    /\ hVer \in {1, 2}
    /\ hEnv \in {e \in EnvsOf(hVer) :
                   ~e.codexMode /\ e.toolGuide = "" /\ ~e.disableEnvOverride
                   /\ ~e.disableInstructions}
    /\ parsedBody \in RelayBodies
    /\ HandlerStart

\* handleResponsesEndpoint from JSON.parse to its next suspension.  The first
\* handler (lines 276-297) awaits transformRequestForCodex(); the second (lines
\* 677-784) captures the stream preference, builds the body and calls fetch().
PrepareRequest ==
    /\ hpc = "parsed"
    /\ IF hVer = 1
       THEN /\ hpc' = "transform"
            /\ UNCHANGED <<clientStreamRequested, sentBody, posts>>
       ELSE /\ clientStreamRequested' = clientStreamPreference(parsedBody)
            /\ sentBody' = minimalRequestBody(parsedBody)
            /\ posts' = posts + 1
            /\ hpc' = "fetch"
    /\ UNCHANGED <<hVer, hEnv, parsedBody, upstreamResponse, responseForClient,
                   logged, logFile, reply>>
    /\ UNCHANGED <<serverVars, histVars, pathVars, validVars, modelVars, sideVars>>

\* lines 298-312: the transformation has answered, fetch() is called
TransformSettles ==
    /\ hpc = "transform"
    /\ sentBody' = transformRequestForCodex(parsedBody, CodexInstructions,
                                            EmptyUserConfig, hEnv.codexMode)
    /\ posts' = posts + 1
    /\ hpc' = "fetch"
    /\ UNCHANGED <<hVer, hEnv, parsedBody, clientStreamRequested, upstreamResponse,
                   responseForClient, logged, logFile, reply>>
    /\ UNCHANGED <<serverVars, histVars, pathVars, validVars, modelVars, sideVars>>

SpecTransform == InitTransform /\ [][PrepareRequest \/ TransformSettles]_vars

\* forwardResponse(upstream, res): status and headers, then the body
forwardReply(response) == [res |-> forwardResponse(response.status), body |-> response.body]
\* the catch of the request listener, headers not sent
errorReply == [res |-> InternalError, body |-> NoText]

\* the condition under which the error is logged with every response
needsLoggingAlways(response) == TRUE

\* lines 319 and 801: if (!responseForClient.ok)
needsLogging(response) == ~ok(response)

\* lines 319-340 and 801-829, from the choice of responseForClient r to the next
\* suspension: the body of a response that is not ok is read first
Deliver(r) ==
    /\ responseForClient' = r
    /\ IF needsLogging(r)
       THEN /\ hpc' = "errorBody"
            /\ UNCHANGED reply
       ELSE /\ hpc' = "done"
            /\ reply' = forwardReply(r)

\* convertSseToJson() is never called
wantsConversionNever == FALSE

\* lines 315 and 788: whether convertSseToJson() is called
wantsConversion == IF hVer = 1 THEN hEnv.forceJson ELSE ~clientStreamRequested

\* fetch() settles: lines 308-317, 780-790
FetchSettles(answer) ==
    /\ hpc = "fetch"
    /\ IF answer = FetchRejects
       THEN /\ reply' = errorReply
            /\ hpc' = "done"
            /\ UNCHANGED <<upstreamResponse, responseForClient>>
       ELSE /\ upstreamResponse' = answer
            /\ IF wantsConversion
               THEN /\ hpc' = "convert"
                    /\ UNCHANGED <<responseForClient, reply>>
               ELSE Deliver(answer)
    /\ UNCHANGED <<hVer, hEnv, parsedBody, clientStreamRequested, sentBody, posts,
                   logged, logFile>>
    /\ UNCHANGED <<serverVars, histVars, pathVars, validVars, modelVars, sideVars>>

\* convertSseToJson() settles: line 316 has no catch, lines 789-798 fall back to
\* the upstream response
ConvertSettles ==
    /\ hpc = "convert"
    /\ LET converted == convertSseToJson(upstreamResponse) IN
         IF ~converted.threw THEN Deliver(converted.value)
         ELSE IF hVer = 1
         THEN /\ reply' = errorReply
              /\ hpc' = "done"
              /\ UNCHANGED responseForClient
         ELSE Deliver(upstreamResponse)
    /\ UNCHANGED <<hVer, hEnv, parsedBody, clientStreamRequested, sentBody, posts,
                   upstreamResponse, logged, logFile>>
    /\ UNCHANGED <<serverVars, histVars, pathVars, validVars, modelVars, sideVars>>

\* logProxyError(entry) (logging.ts lines 29-45) on the file at LOG_PATH: the
\* record is appended; when ensureParentDir() or appendFileSync() throws
\* (written = FALSE) the catch prints a message and the call returns
logProxyError(file, entry, written) ==
    IF written THEN Append(file, entry) ELSE file

\* clone.text() settles: lines 321-340, 803-829.  A body that cannot be read to
\* its end rejects, which is caught; the response is forwarded either way.
ErrorBodyRead(written) ==
    /\ hpc = "errorBody"
    /\ logged' = IF responseForClient.body.broken THEN logged
                 ELSE Append(logged, ProxyErrorLog(responseForClient, sentBody.model))
    /\ logFile' = IF responseForClient.body.broken THEN logFile
                  ELSE logProxyError(logFile,
                                     ProxyErrorLog(responseForClient, sentBody.model),
                                     written)
    /\ reply' = forwardReply(responseForClient)
    /\ hpc' = "done"
    /\ UNCHANGED <<hVer, hEnv, parsedBody, clientStreamRequested, sentBody, posts,
                   upstreamResponse, responseForClient>>
    /\ UNCHANGED <<serverVars, histVars, pathVars, validVars, modelVars, sideVars>>

NextRelay ==
    \/ PrepareRequest
    \/ TransformSettles
    \/ \E answer \in UpstreamResponses \cup {FetchRejects} : FetchSettles(answer)
    \/ ConvertSettles
    \/ \E written \in BOOLEAN : ErrorBodyRead(written)

SpecRelay == InitRelay /\ [][NextRelay]_vars

\* -------------------------------------------- normalizeToolNames on its own
InitTools ==
    /\ MainIdle
    /\ PathIdle /\ ValidIdle /\ ModelIdle /\ HandlerIdle /\ TraceIdle
    /\ toolsIn \in ToolResponses /\ toolsOut = NoJson

ApplyNormalizeToolNames ==
    /\ toolsOut = NoJson
    /\ toolsOut' = normalizeToolNames(toolsIn)
    /\ UNCHANGED <<serverVars, histVars, pathVars, validVars, modelVars, handlerVars,
                   traces, toolsIn>>

SpecTools == InitTools /\ [][ApplyNormalizeToolNames]_vars

\* ------------------------------------- the correlation ids of several requests
\* Requests with a body that parses, served one after the other by one handler
InitTrace ==
    /\ MainIdle
    /\ PathIdle /\ ValidIdle /\ ModelIdle /\ ToolsIdle
    /\ hVer \in {1, 2}
    /\ hEnv \in {e \in EnvsOf(hVer) : e.forceJson = FALSE /\ e.toolGuide = ""}
    /\ hpc = "idle" /\ parsedBody = NoBody /\ clientStreamRequested = FALSE
    /\ sentBody = NoBody /\ posts = 0 /\ upstreamResponse = NoResponse
    /\ responseForClient = NoResponse /\ logged = << >> /\ logFile = << >>
    /\ reply = NoReply
    /\ traces = << >>

\* the UUIDs randomUUID() has returned so far
usedUuids == {traces[i].traceId.uuid : i \in 1..Len(traces)}

\* handleResponsesEndpoint from JSON.parse to fetch() for one more request (lines
\* 276-312, 677-784): the traceId is taken and the body to send is built.
\* randomUUID() is called only when the key is absent and repeats no value.
TraceRequest ==
    /\ Len(traces) < MaxTraced
    /\ \E key \in CacheKeys :
       \E uuid \in IF isNullish(key) THEN UUIDs \ usedUuids ELSE {NoUuid} :
         LET body == [NoBody EXCEPT !.store = "undefined", !.stream = "undefined",
                                    !.tools = "undefined", !.prompt_cache_key = key]
             sent == IF hVer = 1
                     THEN transformRequestForCodex(body, CodexInstructions,
                                                   EmptyUserConfig, hEnv.codexMode)
                     ELSE minimalRequestBody(body)
         IN  traces' = Append(traces, [key |-> key,
                                       traceId |-> traceIdOf(key, uuid),
                                       sent |-> sent.prompt_cache_key])
    /\ UNCHANGED <<serverVars, histVars, pathVars, validVars, modelVars, handlerVars,
                   toolsIn, toolsOut>>

SpecTrace == InitTrace /\ [][TraceRequest]_vars

\* --------------------------------------------- a server that has been running
\* The server some time after its start, at a moment taken as time 0.  It started
\* on a stored record, StoredRecord, which has expired since; the refresh of it
\* failed and cleared the credentials in memory; a request that has been answered
\* by now then obtained the credentials in memory through bootstrapCredentials,
\* which refreshed the stored record; and request 1, which arrived while the
\* credentials were absent, is still in the refresh of its own
\* bootstrapCredentials, started with the record it read then.  The request that
\* has been answered is not one of Reqs; its refresh promise is handle 1.
StoredRecord == [tok |-> 1, expires |-> bufferMs]
InitRunning ==
    /\ now = 0
    /\ creds = [tok |-> 2, expires |-> LifetimeMs]
    /\ disk = creds
    /\ refreshPromise = 0
    /\ pc = [p \in Procs |-> IF p = Boot THEN "listening"
                              ELSE IF p = 1 THEN "bsRefresh" ELSE "idle"]
    /\ req = [r \in Reqs |-> IF r = 1
                              THEN [method |-> "POST", path |-> PathV1 \o PathResponses,
                                    body |-> BodyObject]
                              ELSE NoReq]
    /\ resp = [r \in Reqs |-> NoResp]
    /\ cached = [p \in Procs |-> IF p = 1 THEN StoredRecord ELSE NoCreds]
    /\ mq = << >>
    /\ waiters = << >>
    /\ efCall = NoCall
    /\ nextTok = 3
    /\ nHandles = 1
    /\ joined = [r \in Reqs |-> 0]
    /\ issued = [p \in Procs |-> IF p = 1 THEN 1 ELSE 0]
    /\ logins = [p \in Procs |-> 0]
    /\ obs = [p \in Procs |-> IF p = Boot
                               THEN [ret |-> "returned", creds |-> StoredRecord]
                               ELSE NoObs]
    /\ upstream = [r \in Reqs |-> 0]
    /\ outcome = [h \in Reqs |-> IF h = 1 THEN [st |-> "failed", rec |-> NoCreds]
                                  ELSE NoOutcome]
    /\ io = [reads |-> 3, writes |-> 1]
    /\ PureIdle

\* the callbacks of a server that is listening
NextRunning ==
    \/ \E r \in Reqs : \E m \in MethodsOf(r), path \in PathsOf(r) : Arrive(r, m, path)
    \/ \E r \in Reqs : \E raw \in BodiesOf(r) : BodyRead(r, raw)
    \/ \E out \in RefreshOutcomes : RefreshSettles(out)
    \/ RefreshThenCatch
    \/ RefreshFinally
    \/ WaiterResumes
    \/ \E p \in Procs, out \in RefreshOutcomes : BootstrapRefreshSettles(p, out)
    \/ \E p \in Procs, out \in LoginOutcomes : LoginSettles(p, out)
    \/ \E r \in Reqs : TransformDone(r)
    \/ \E r \in Reqs : \E status \in UpstreamOf(r) : FetchDone(r, status)
    \/ Tick

SpecRunning == InitRunning /\ [][NextRunning]_vars

\* ================================================================== claims

\* C4: for every credential record and every current time the validity test is
\* true exactly when expires - now > 60000 (a record expiring exactly 60000 ms
\* from now is invalid), and an absent record is invalid.
C4_ValidIffBeyondBuffer ==
    vOut # "none" =>
        ( (vOut = "true") <=> (vCreds # NoCreds /\ vCreds.expires - vNow > 60000) )

\* the test has been applied to a record expiring exactly 60000 ms from now
C4_Witness ==
    /\ vOut = "false"
    /\ vCreds # NoCreds
    /\ vNow > 0
    /\ vCreds.expires - vNow = 60000

\* C10: a path beginning with /v1/ maps to the same path without the /v1 prefix,
\* exactly /v1 maps to /, every other slash-led path is returned unchanged, and
\* the result always begins with "/".
C10_NormalizePath ==
    pathOut # << >> =>
        /\ Head(pathOut) = "/"
        /\ StartsWith(pathIn, PathV1Slash) => PathV1 \o pathOut = pathIn
        /\ pathIn = PathV1 => pathOut = PathRoot
        /\ ( /\ StartsWith(pathIn, PathRoot)
             /\ ~StartsWith(pathIn, PathV1Slash)
             /\ pathIn # PathV1 ) => pathOut = pathIn

\* /v1/responses has been normalized to /responses
C10_Witness ==
    /\ pathIn = PathV1 \o PathResponses
    /\ pathOut = PathResponses


\* ------------------------------------------------------- single-flight refresh
\* the handlers that awaited refresh promise h
Joiners(h) == { r \in Reqs : joined[r] = h }
\* ensureFreshCredentials() has ended for handler r
Ended(r) == obs[r].ret # "none"

RECURSIVE SumIssued(_)
SumIssued(S) ==
    IF S = {} THEN 0
    ELSE LET r == CHOOSE x \in S : TRUE IN issued[r] + SumIssued(S \ {r})

\* C1: the ensureFresh calls that overlap on expired credentials (the callers of
\* one refresh promise) cause exactly one refresh network call between them,
\* whether the refresh succeeds or fails.
C1_ExactlyOneRefreshCall ==
    \A h \in 1..nHandles : SumIssued(Joiners(h)) = 1

\* C2: the handlers that joined one in-flight refresh observe one outcome: when
\* it succeeded each returns with the record it produced; in every case all of
\* them end the same way with the same record.
C2_JoinersObserveOneOutcome ==
    \A h \in 1..nHandles : \A r1, r2 \in Joiners(h) :
        (Ended(r1) /\ Ended(r2)) =>
            /\ obs[r1] = obs[r2]
            /\ outcome[h].st = "ok" =>
                   obs[r1] = [ret |-> "returned", creds |-> outcome[h].rec]

\* C3: ensureFresh called while the credentials in memory are present and valid
\* returns at once: no refresh call, no login, no read or write of the
\* credential file, credentials and in-flight handle unchanged.
C3_ValidFastPath ==
    [][ \A r \in Reqs :
          ( /\ pc[r] = "readBody"
            /\ req'[r].body = BodyObject
            /\ creds # NoCreds
            /\ creds.expires - now > 60000 )
          => /\ pc'[r] = "transform"
             /\ obs'[r] = [ret |-> "returned", creds |-> creds]
             /\ UNCHANGED <<creds, refreshPromise, disk, efCall, waiters, mq, io,
                            issued, logins, joined, nHandles>> ]_vars

\* a handler went through ensureFresh on valid credentials and is on its way upstream
C3_Witness ==
    \E r \in Reqs :
        /\ pc[r] = "transform"
        /\ joined[r] = 0 /\ issued[r] = 0 /\ logins[r] = 0
        /\ obs[r].creds = creds
        /\ creds.expires - now > 60000

\* C5: a proxied request for which no credentials can be obtained is answered
\* 401 {"error": "Authentication required"}, and no upstream call is made for it.
C5_NoCredentialsIs401 ==
    \A r \in Reqs :
        obs[r].ret = "threw" =>
            /\ resp[r] = sendJson(401, "error", <<"Authentication required">>)
            /\ upstream[r] = 0

\* C6: after a request has failed because credentials could not be obtained the
\* auth state is back at "no credentials, no in-flight refresh".
C6_FailureLeavesUnauthenticated ==
    [][ \A r \in Reqs :
          (obs[r].ret # "threw" /\ obs'[r].ret = "threw")
          => (creds' = NoCreds /\ refreshPromise' = 0) ]_vars


\* ------------------------------------------------------------------ dispatch
HealthReply == sendJson(200, "ok", <<"true">>)

\* C7: GET on a path normalizing to /health is answered 200 {"ok": true} in every
\* auth state, and handling it changes nothing of the auth state and starts no
\* refresh, login or upstream call.
C7_HealthIndependentOfAuth ==
    [][ \A r \in Reqs :
          ( /\ pc[r] = "idle" /\ pc'[r] # "idle"
            /\ req'[r].method = "GET"
            /\ req'[r].path \in {PathHealth, PathV1 \o PathHealth} )
          => /\ resp'[r] = HealthReply
             /\ pc'[r] = "done"
             /\ UNCHANGED <<creds, refreshPromise, disk, efCall, waiters, mq, cached,
                            nextTok, nHandles>>
             /\ UNCHANGED histVars ]_vars

\* a health check was answered, and the credentials are absent with the logins
\* of other requests pending
C7_Witness ==
    \E r \in Reqs :
        /\ resp[r] = HealthReply
        /\ req[r].path = PathV1 \o PathHealth
        /\ creds = NoCreds
        /\ \E q \in Reqs : pc[q] = "login"

\* C8: on the path /responses a method other than POST is answered 405; a request
\* whose normalized path is neither /responses nor (with GET) /health is answered
\* 404 {"error": "Not found"} and is never proxied upstream.
C8_DispatchByMethodAndPath ==
    \A r \in Reqs :
        pc[r] # "idle" =>
            LET n == normalizePath(req[r].path) IN
            /\ (n = PathResponses /\ req[r].method # "POST")
                 => resp[r] = sendJson(405, "error", <<"Method not allowed">>)
            /\ (n # PathResponses /\ ~(req[r].method = "GET" /\ n = PathHealth))
                 => /\ resp[r] = sendJson(404, "error", <<"Not found">>)
                    /\ upstream[r] = 0

\* the request went no further than the validation of its body
RejectedEarly(r) ==
    /\ pc[r] = "done"
    /\ obs[r] = NoObs
    /\ joined[r] = 0 /\ issued[r] = 0 /\ logins[r] = 0 /\ upstream[r] = 0

\* C9: a POST to the proxied endpoint with an empty body is answered 400
\* {"error": "Request body is required"}, one whose body is not parseable JSON is
\* answered 400 with a message starting "Invalid JSON body:", and in both cases
\* the request goes no further in the pipeline.
C9_BadBodyIs400 ==
    \A r \in Reqs :
        /\ req[r].body = BodyEmpty =>
              /\ resp[r] = sendJson(400, "error", <<"Request body is required">>)
              /\ RejectedEarly(r)
        /\ req[r].body = BodyBrace =>
              /\ resp[r].status = 400 /\ resp[r].key = "error"
              /\ Head(resp[r].msg) = "Invalid JSON body: "
              /\ RejectedEarly(r)

\* the body "{" was rejected while a refresh was in flight
C9_Witness ==
    \E r \in Reqs :
        /\ req[r].body = BodyBrace
        /\ resp[r].status = 400
        /\ refreshPromise # 0


\* ------------------------------------------------------ model and reasoning
\* C11: model normalization has exactly two results: a name containing "codex"
\* in any letter case maps to gpt-5-codex, also when it contains gpt-5; every
\* other name, an absent or empty one included, maps to gpt-5.
C11_NormalizeModelTwoResults ==
    mOut # NoModelOut =>
        /\ mOut.model \in {ModelGpt5, ModelGpt5Codex}
        /\ (mOut.model = ModelGpt5Codex) <=>
              ( /\ mModel # Undefined
                /\ \E spelling \in {sCodex, sCODEX, sCoDex} : Includes(mModel, spelling) )

\* a name with gpt-5 and an upper-case CODEX in it has been mapped to gpt-5-codex
C11_Witness ==
    /\ mModel = sGpt5 \o sCODEX
    /\ mOut.model = ModelGpt5Codex

\* C12: no transformed request pairs the codex variant with the effort
\* "minimal", whether the effort comes from an override or from the default of a
\* lightweight model, for every original model name in any letter case.
C12_CodexNeverMinimal ==
    mOut # NoModelOut =>
        ~(mOut.model = ModelGpt5Codex /\ mOut.reasoning.effort = "minimal")


\* ------------------------------------------------------ the body sent upstream
\* C13: in every request body sent upstream the input sequence holds no item of
\* type "item_reference" and no item with an id property, whatever the caller sent.
C13_StatelessInput ==
    (hpc = "fetch" /\ isArray(sentBody.input)) =>
        \A i \in 1..Len(sentBody.input.items) :
            /\ sentBody.input.items[i].type # "item_reference"
            /\ sentBody.input.items[i].id = "undefined"

C20_IncludeDefaulted ==
    hpc = "fetch" =>
        IF ~isArray(parsedBody.include) \/ parsedBody.include.items = << >>
        THEN sentBody.include = JsonArray(<<"reasoning.encrypted_content">>)
        ELSE sentBody.include = parsedBody.include


\* ------------------------------------------------------ the answer relayed
\* C15 as stated: for every request the choice between pass-through and
\* consolidation follows the stream preference the caller sent: a caller that
\* asked for streaming gets the upstream response as it is and no consolidation
\* is attempted, any other caller's response goes to consolidation.
C15_ChoiceFollowsCaller ==
    [][ (hpc = "fetch" /\ upstreamResponse' # NoResponse) =>
          /\ sentBody.stream = "true"
          /\ IF parsedBody.stream = "true"
             THEN hpc' # "convert" /\ responseForClient' = upstreamResponse'
             ELSE hpc' = "convert" ]_vars

\* C15 amended: the handler that captures the caller's preference follows it,
\* although it has forced stream = true in the body; the handler with the
\* force-JSON toggle attempts the consolidation exactly when the toggle is on.
C15_ChoiceFollowsCallerOrToggle ==
    [][ (hpc = "fetch" /\ upstreamResponse' # NoResponse) =>
          /\ sentBody.stream = "true"
          /\ IF (IF hVer = 2 THEN parsedBody.stream = "true" ELSE ~hEnv.forceJson)
             THEN hpc' # "convert" /\ responseForClient' = upstreamResponse'
             ELSE hpc' = "convert" ]_vars

\* a caller that asked for streaming has been sent the upstream's event stream
\* as it came, although the body sent upstream had stream = true anyway
C15_Witness ==
    /\ hVer = 2 /\ hpc = "done"
    /\ parsedBody.stream = "true" /\ sentBody.stream = "true"
    /\ upstreamResponse.body.events = <<EventA, EventB, EventDone1>>
    /\ reply = forwardReply(upstreamResponse)

\* C16: when the consolidation of the upstream stream fails the request does not
\* fail: the upstream response is relayed with the upstream status, and the
\* proxy sends no error response of its own.
C16_FailedConsolidationRelaysRaw ==
    LET events == upstreamResponse.body.events
        attempted == IF hVer = 1 THEN hEnv.forceJson ELSE parsedBody.stream # "true"
        fails == \/ upstreamResponse.body.broken
                 \/ events = << >>
                 \/ events[Len(events)].type # "done"
    IN  (hpc = "done" /\ upstreamResponse # NoResponse /\ attempted /\ fails) =>
            /\ reply.res = forwardResponse(upstreamResponse.status)
            /\ reply.body = upstreamResponse.body

C18_OnePostStatusForwarded ==
    hpc = "done" =>
        /\ posts = 1
        /\ (upstreamResponse # NoResponse /\ ~ok(upstreamResponse)) =>
               reply.res = forwardResponse(upstreamResponse.status)

\* C19 as stated: the error logger is invoked for a request exactly when the
\* final response status is not 2xx, at most once, before the response is
\* forwarded, with an excerpt of the response body of at most 8000 characters.
C19_LoggedIffNot2xx ==
    /\ [](responseForClient # NoResponse =>
            /\ hpc = "done" =>
                  Len(logged) = (IF responseForClient.status \in 200..299 THEN 0 ELSE 1)
            /\ \A i \in 1..Len(logged) : logged[i].responseBody <= 8000)
    /\ [][logged' # logged => reply = NoReply]_vars

\* C19 amended: the logger is invoked only for a final response that is not 2xx,
\* at most once and before the response is forwarded, with an excerpt of at most
\* 8000 characters; for such a response it is invoked unless the body cannot be
\* read as text, then nothing is logged and the response is forwarded all the same.
C19_LoggedIffNot2xxAndReadable ==
    /\ [](responseForClient # NoResponse =>
            /\ hpc = "done" =>
                  /\ Len(logged) =
                       (IF /\ responseForClient.status \notin 200..299
                           /\ ~responseForClient.body.broken THEN 1 ELSE 0)
                  /\ reply = forwardReply(responseForClient)
            /\ \A i \in 1..Len(logged) :
                  /\ logged[i].responseBody <= 8000
                  /\ logged[i].status = responseForClient.status)
    /\ [][logged' # logged => reply = NoReply]_vars

\* a 429 whose body is longer than 8000 characters has been logged with an
\* excerpt of 8000 characters and forwarded
C19_Witness ==
    /\ hpc = "done" /\ Len(logged) = 1
    /\ responseForClient.status = 429
    /\ textLength(responseForClient.body) > 8000
    /\ logged[1].responseBody = 8000
    /\ reply = forwardReply(responseForClient)


\* ------------------------------------------------- instructions, correlation
\* C21: a caller's instructions that are a string with something other than
\* blanks in it are sent upstream unchanged; otherwise the cached Codex
\* instructions are sent, or the empty string when their injection is disabled.
C21_InstructionsResolved ==
    hpc = "fetch" =>
        sentBody.instructions =
            IF /\ parsedBody.instructions # Undefined
               /\ trim(parsedBody.instructions) # << >>
            THEN parsedBody.instructions
            ELSE IF hEnv.disableInstructions THEN << >> ELSE CodexInstructions

\* C22: the correlation id of a request is the caller's prompt_cache_key whenever
\* the caller supplied one; otherwise it is a synthesized id that no other
\* request has; the body sent upstream carries the caller's cache key unchanged,
\* and none when the caller supplied none.
C22_CorrelationId ==
    \A i \in 1..Len(traces) :
        LET t == traces[i] IN
        /\ t.key \notin {"undefined", "null"} =>
               t.traceId = [key |-> t.key, uuid |-> NoUuid]
        /\ t.key \in {"undefined", "null"} =>
               /\ t.traceId.uuid # NoUuid
               /\ \A j \in 1..Len(traces) : j # i => traces[j].traceId # t.traceId
        /\ t.sent = t.key

\* two requests without a cache key and one with the empty string as its key
\* have been handled
C22_Witness ==
    /\ Len(traces) = 3
    /\ traces[1].key = "undefined" /\ traces[2].key = "undefined"
    /\ traces[1].traceId # traces[2].traceId
    /\ traces[3].key = "" /\ traces[3].traceId.uuid = NoUuid
    /\ traces[3].sent = ""


\* ------------------------------------------------------------- tool names
\* C23: normalizeToolNames gives every function_call item whose name has a
\* canonical key in the name map the mapped name, leaves every other item and
\* every other name as it was, and changes nothing when applied a second time.
C23_ToolNamesNormalized ==
    toolsOut # NoJson =>
        /\ toolsOut.id = toolsIn.id
        /\ IF ~isArray(toolsIn.output) THEN toolsOut.output = toolsIn.output
           ELSE /\ isArray(toolsOut.output)
                /\ Len(toolsOut.output.items) = Len(toolsIn.output.items)
                /\ \A i \in 1..Len(toolsIn.output.items) :
                     LET item == toolsIn.output.items[i]
                         key == canonicalKey(item.name)
                     IN  toolsOut.output.items[i] =
                           IF /\ item.type = "function_call"
                              /\ key # Null
                              /\ NAME_MAP(key) # Undefined
                           THEN [item EXCEPT !.name = NAME_MAP(key)]
                           ELSE item
        /\ normalizeToolNames(toolsOut) = toolsOut


\* ------------------------------------------------------------------- faults
\* C24: a fault while a request is served (the body parses to null, credentials
\* cannot be obtained, the credentials are gone when the headers are built)
\* answers 500 {"error": "Internal server error"} when nothing has been sent;
\* a response once sent never gets a second status or body; and the server,
\* once listening, keeps listening whatever happens to a request.
C24_FaultIs500ServerSurvives ==
    [][ /\ \A r \in Reqs :
            /\ resp[r] # NoResp => resp'[r] = resp[r]
            /\ ( \/ obs[r].ret # "threw" /\ obs'[r].ret = "threw"
                 \/ req[r].body = NotRead /\ req'[r].body = BodyNull
                 \/ pc[r] = "transform" /\ pc'[r] = "done" )
               => (resp[r] = NoResp => resp'[r] = InternalError)
        /\ pc[Boot] = "listening" => pc'[Boot] = "listening" ]_vars

\* the first request ended in the catch of the listener with 500, and the second
\* request has been answered by the upstream all the same
C24_Witness ==
    /\ obs[1].ret = "threw" /\ resp[1] = InternalError
    /\ pc[Boot] = "listening"
    /\ resp[2] = forwardResponse(200)


\* ------------------------------------------------------ the refresh in flight
\* the token exchanges that have been sent and have not been answered
refreshCallsOutstanding ==
    Cardinality({p \in Procs : pc[p] = "bsRefresh"}) + (IF efCall # NoCall THEN 1 ELSE 0)

\* C25: in every reachable state at most one token-refresh network call is
\* outstanding, those of the bootstrap fallback included.
C25_AtMostOneRefreshOutstanding == refreshCallsOutstanding <= 1

\* C26: whenever the event loop is between callbacks, authState.refreshPromise is
\* set if and only if a refresh token exchange has been started and has not
\* settled yet.
C26_HandleIffRefreshOutstanding ==
    mq = << >> => (refreshPromise # 0 <=> refreshCallsOutstanding > 0)

\* C27: the handle is cleared only after its refresh has settled and the outcome
\* is in authState.credentials; a handle, once cleared, is never set again; and
\* a waiter never resumes while the handle of the refresh it waited on is set.
C27_HandleClearedOnceBeforeWaiters ==
    [][ /\ (refreshPromise # 0 /\ refreshPromise' # refreshPromise) =>
              /\ refreshPromise' = 0
              /\ outcome[refreshPromise].st \in {"ok", "failed"}
              /\ creds = outcome[refreshPromise].rec
        /\ (refreshPromise = 0 /\ refreshPromise' # 0) =>
              /\ refreshPromise' = nHandles + 1
              /\ nHandles' = nHandles + 1
        /\ \A r \in Reqs :
              (pc[r] = "awaitRefresh" /\ pc'[r] # "awaitRefresh") =>
                  /\ refreshPromise # joined[r]
                  /\ outcome[joined[r]].st \in {"ok", "failed"} ]_vars

\* two handlers waited on one refresh and both have resumed after it was cleared
C27_Witness ==
    /\ joined[1] # 0 /\ joined[1] = joined[2]
    /\ obs[1].ret = "returned" /\ obs[2].ret = "returned"
    /\ outcome[joined[1]].st = "ok"
    /\ refreshPromise = 0

C29_ValidStoredRecordAdopted ==
    [][ ( /\ io'.reads # io.reads
          /\ hasValidAccess(loadStoredCredentials(disk), now) )
        => /\ creds' = loadStoredCredentials(disk)
           /\ issued' = issued /\ logins' = logins
           /\ io'.writes = io.writes /\ disk' = disk
           /\ \E p \in Procs :
                /\ obs[p].ret = "none"
                /\ obs'[p] = [ret |-> "returned", creds |-> loadStoredCredentials(disk)]
      ]_vars

\* the server has started on a valid stored record alone
C29_Witness ==
    /\ pc[Boot] = "listening"
    /\ creds # NoCreds /\ creds = disk
    /\ io = [reads |-> 1, writes |-> 0]
    /\ issued[Boot] = 0 /\ logins[Boot] = 0

\* C30: bootstrapCredentials sends a refresh only when it has read a stored
\* record that has expired, one per call and with that record; it starts the
\* interactive login only after that refresh has failed or, at once and with
\* no refresh, when there is no stored record (no file, or one that does not
\* parse); credentials obtained by login are in the file when they become the
\* credentials in memory.
C30_BootstrapEscalation ==
    [][ LET file == loadStoredCredentials(disk) IN
        /\ \A p \in Procs :
             /\ (pc[p] # "bsRefresh" /\ pc'[p] = "bsRefresh") =>
                   /\ io'.reads = io.reads + 1
                   /\ file # NoCreds /\ ~hasValidAccess(file, now)
                   /\ cached'[p] = file
                   /\ issued'[p] = issued[p] + 1
             /\ (pc[p] # "login" /\ pc'[p] = "login") =>
                   /\ issued'[p] = issued[p]
                   /\ \/ pc[p] = "bsRefresh"
                      \/ io'.reads = io.reads + 1 /\ file = NoCreds
             /\ (pc[p] = "login" /\ obs'[p].ret = "returned") =>
                   /\ creds' # NoCreds
                   /\ disk' = creds'
                   /\ io'.writes = io.writes + 1
        /\ (io'.reads # io.reads /\ ~hasValidAccess(file, now)) =>
             \E p \in Procs :
                /\ pc[p] \notin {"bsRefresh", "login"}
                /\ pc'[p] = IF file # NoCreds THEN "bsRefresh" ELSE "login"
      ]_vars

\* the server has started from an expired stored record: one refresh, which
\* failed, then the login, whose credentials are in the file and in memory
C30_Witness ==
    /\ pc[Boot] = "listening"
    /\ issued[Boot] = 1 /\ logins[Boot] = 1
    /\ creds # NoCreds /\ disk = creds
    /\ io = [reads |-> 1, writes |-> 1]


\* ------------------------------------------------------- what a refresh writes
\* C31: a refresh that fails, because the token exchange failed or because the
\* new access token has no account id, writes nothing: the token file holds the
\* record it held before; and whenever the token file is written, the record
\* written is one a refresh or login returned after extracting the account id,
\* the same record that becomes the outcome of that call.
C31_FailedRefreshPersistsNothing ==
    [][ /\ ( \/ \E h \in Reqs : outcome[h].st = "pending" /\ outcome'[h].st = "failed"
             \/ \E p \in Procs : pc[p] = "bsRefresh" /\ pc'[p] = "login" )
           => disk' = disk /\ io' = io
        /\ (disk' # disk \/ io'.writes # io.writes) =>
             /\ io'.writes = io.writes + 1
             /\ disk' = Grant
             /\ \/ \E h \in Reqs : /\ outcome[h].st = "pending"
                                    /\ outcome'[h] = [st |-> "ok", rec |-> disk']
                \/ \E p \in Procs : /\ pc[p] \in {"bsRefresh", "login"}
                                     /\ obs'[p] = [ret |-> "returned", creds |-> disk']
      ]_vars

\* a refresh shared by a handler has failed, the fallback's own refresh of the
\* stored record has failed too, and the file still holds the record the server
\* started with, expired by now
C31_Witness ==
    \E r \in Reqs :
        /\ joined[r] # 0 /\ outcome[joined[r]].st = "failed"
        /\ issued[r] = 2 /\ pc[r] = "login"
        /\ io.writes = 0
        /\ disk = [tok |-> 1, expires |-> LifetimeMs]


\* ------------------------------------------------------ the caller's own items
\* an input item, its id left aside
withoutId(item) == [item EXCEPT !.id = "undefined"]

\* the handler has been told to put no item of its own in front of the input
injectionDisabled ==
    IF hVer = 1 THEN ~hEnv.codexMode /\ hEnv.toolGuide = ""
    ELSE hEnv.disableEnvOverride

\* C32: the input sent upstream ends with the caller's own items (those that are
\* not item_reference), each once and in the caller's order; at most one item
\* stands before them, an injected guidance or environment-override message;
\* and none does when the injection is disabled.
C32_CallerItemsKeptInOrder ==
    (hpc = "fetch" /\ isArray(parsedBody.input)) =>
        LET own == SelectSeq(parsedBody.input.items,
                             LAMBDA item : item.type # "item_reference")
            sent == sentBody.input.items
            injected == Len(sent) - Len(own)
        IN  /\ isArray(sentBody.input)
            /\ injected \in {0, 1}
            /\ \A i \in 1..Len(own) : withoutId(sent[injected + i]) = withoutId(own[i])
            /\ injected = 1 =>
                  sent[1] \in {EnvOverrideMessage, BridgeMessage,
                               GuideMessage("TOOL_REMAP_MESSAGE")}
            /\ injectionDisabled => injected = 0


\* ------------------------------------------------------- logging and forwarding
\* C33: logging does not hold the response back and does not change it: as soon
\* as the response for the caller is chosen its status and body are on their way
\* to the caller, without the body being read to its end first; and the reply a
\* request ends with is that response, whether the log record was written,
\* could not be written, or the body could not be read for it.
C33_LoggingNeverBlocksNorAlters ==
    responseForClient # NoResponse =>
        /\ reply # NoReply
        /\ hpc = "done" => reply = forwardReply(responseForClient)


C35_CredentialsPresentAtHeaders ==
    [][ \A r \in Reqs :
          (pc[r] = "transform" /\ pc'[r] # "transform") => creds # NoCreds ]_vars


\* C36: a failing refresh clears only the credentials it was refreshing.  A
\* refresh is started only for credentials that are no longer valid, so the
\* credentials it may clear are never valid ones: a valid record in memory,
\* installed by another bootstrap, refresh or login since, is never replaced
\* by null.
C36_FailingRefreshClearsOnlyItsOwn ==
    [][ (creds # NoCreds /\ creds' = NoCreds) => ~hasValidAccess(creds, now) ]_vars


\* ------------------------------------------------------- the logins in progress
\* the tasks whose bootstrapCredentials is suspended in interactiveLogin()
loginsInProgress == {p \in Procs : pc[p] = "login"}

\* C37: at most one interactive login is in progress at any time, however many
\* requests have found the credentials absent.
C37_AtMostOneLogin == Cardinality(loginsInProgress) <= 1


\* ---------------------------------------------------- one response per request
\* what a request can be answered with: a JSON error reply, the health reply,
\* or the upstream response
ResponseOutcomes ==
    { sendJson(400, "error", <<"Request body is required">>),
      sendJson(400, "error", <<"Invalid JSON body: ", "detail">>),
      sendJson(401, "error", <<"Authentication required">>),
      sendJson(404, "error", <<"Not found">>),
      sendJson(405, "error", <<"Method not allowed">>),
      InternalError,
      sendJson(200, "ok", <<"true">>) }
    \cup { forwardResponse(status) : status \in UpstreamResults \ {0} }

\* C38: every request is answered exactly once: a status line and a body are
\* written for it in one step, the step that ends its handler, they are one of
\* the outcomes above, and nothing is written for it before or afterwards,
\* whatever fault its handler runs into.
C38_ExactlyOneResponse ==
    [][ \A r \in Reqs :
          /\ resp[r] # NoResp => resp'[r] = resp[r]
          /\ (resp[r] = NoResp /\ resp'[r] # NoResp) =>
                /\ pc[r] # "done" /\ pc'[r] = "done"
                /\ resp'[r] \in ResponseOutcomes
          /\ (pc[r] # "done" /\ pc'[r] = "done") => resp'[r] # NoResp
          /\ pc[r] = "done" => pc'[r] = "done" ]_vars

\* one request has been refused with 400 and the other answered by the upstream
C38_Witness ==
    /\ pc[1] = "done" /\ resp[1].status = 400
    /\ pc[2] = "done" /\ resp[2] = forwardResponse(200)
    /\ upstream[1] = 0 /\ upstream[2] = 1


\* --------------------------------------------------- rejected before credentials
\* the request has been answered 405 or 400
Rejected(r) == resp[r].status \in {405, 400}

\* C39: a request answered 405 or 400 has done no credential work: it has not
\* called ensureFreshCredentials, has started no refresh and no login and has
\* sent nothing upstream, and the step that rejects it leaves the credentials in
\* memory, the refresh promise and the token file as they were.  A request that
\* is not a POST, or whose body is empty or does not parse, never gets as far as
\* the credentials.
C39_RejectedBeforeCredentials ==
    /\ [](\A r \in Reqs :
            /\ Rejected(r) => RejectedEarly(r)
            /\ ( \/ req[r].method = "GET"
                 \/ req[r].body \in {BodyEmpty, BodyBrace} )
               => /\ obs[r] = NoObs
                  /\ joined[r] = 0 /\ issued[r] = 0 /\ logins[r] = 0 /\ upstream[r] = 0)
    /\ [][ \A r \in Reqs :
              (~Rejected(r) /\ Rejected(r)') =>
                  /\ UNCHANGED <<creds, refreshPromise, disk>>
                  /\ UNCHANGED <<efCall, waiters, mq, nHandles, cached>>
                  /\ UNCHANGED histVars ]_vars

\* a GET to the proxied endpoint has been answered 405 while the refresh that
\* another request started is in flight
C39_Witness ==
    \E r, q \in Reqs :
        /\ r # q
        /\ req[r].method = "GET" /\ resp[r].status = 405 /\ RejectedEarly(r)
        /\ joined[q] = refreshPromise /\ refreshPromise # 0 /\ efCall # NoCall


\* ------------------------------------------------------------------ termination
\* C40: as long as every token exchange and every interactive login settles,
\* every call of ensureFreshCredentials that is suspended, on the shared
\* refresh, on the refresh of the fallback or on the login, eventually returns
\* or throws, after a refresh that failed as after one that succeeded; and a
\* refresh promise that is set is eventually cleared.
C40_EnsureFreshCompletes ==
    /\ \A r \in Reqs :
          (pc[r] \in {"awaitRefresh", "bsRefresh", "login"}) ~> (obs[r].ret # "none")
    /\ (refreshPromise # 0) ~> (refreshPromise = 0)

\* two handlers waited on one refresh, which failed; the fallback of one has
\* returned with new credentials and that of the other has thrown; the promise
\* is cleared
C40_Witness ==
    \E r, q \in Reqs :
        /\ joined[r] # 0 /\ joined[r] = joined[q]
        /\ outcome[joined[r]].st = "failed"
        /\ obs[r].ret = "returned" /\ obs[q].ret = "threw"
        /\ refreshPromise = 0

====
